---- MODULE Spec2Model ----
(***************************************************************************)
(* Model of express-openapi-decorators: the decorators that fill the       *)
(* per-class metadata maps, registerControllers and getOpenAPISchema.      *)
(*                                                                         *)
(* Strings the code inspects character by character (paths, schema names)  *)
(* are sequences of one-character strings; opaque strings (verbs,          *)
(* middleware identities, tags, texts) are TLA+ strings.  A value that may *)
(* be undefined is a sequence of length 0 (undefined) or 1.  A JavaScript  *)
(* Map or plain object is a sequence of [key, value] entries in insertion  *)
(* order.                                                                  *)
(***************************************************************************)
EXTENDS Integers, Sequences, FiniteSets, TLC

VARIABLES
    metadataSupport, \* whether the host provides Symbol.metadata / context.metadata
    inherits,        \* whether class B is declared as extending class A
    metadata,        \* metadata[c][kind]: the Map stored under the kind's symbol, or undefined
    nDefined,        \* how many classes of ClassOrder have finished their definition
    cur,             \* the declaration being decorated: [kind, name]
    visited,         \* members of the class being defined whose decorators have run
    apps,            \* decorator applications so far
    attempts,        \* attempts[c][kind][key]: every value a decorator was asked to store there
    lastOp,          \* the operation that ran last
    thrown,          \* the error it raised, or ""
    callArgs,        \* the arguments of the last resolver call
    info,            \* what the last registerControllers call returned (undefined if none/thrown)
    registrarCalls,  \* the calls the last registerControllers pass made on the registrar
    openapi,         \* what the last getOpenAPISchema call returned (undefined if none/thrown)
    kept             \* results of earlier calls that the caller still holds

vars == <<metadataSupport, inherits, metadata, nDefined, cur, visited, apps, attempts,
          lastOp, thrown, callArgs, info, registrarCalls, openapi, kept>>

storeVars == <<metadataSupport, inherits, metadata, nDefined, cur, visited, apps, attempts>>
callVars == <<callArgs, info, registrarCalls, openapi, kept>>

(***************************************************************************)
(* Bounds of the model.                                                    *)
(***************************************************************************)
MaxApps == 4          \* decorator applications in one run
MaxControllers == 2   \* length of the controllers array passed to a resolver
MaxStoreApps == 3     \* decorator applications in the specifications of the store alone
MaxPathLen == 5       \* length of the paths of the specification of the path translation

(***************************************************************************)
(* Optional values, Maps.                                                  *)
(***************************************************************************)
Undefined == <<>>
Def(x) == <<x>>
IsDef(o) == Len(o) > 0
Val(o) == o[1]
\* a ?? b
Coalesce(o, b) == IF IsDef(o) THEN o ELSE b

NewMap == <<>>
MapHas(m, k) == \E i \in 1..Len(m) : m[i].key = k
MapIndex(m, k) == CHOOSE i \in 1..Len(m) : m[i].key = k
MapGet(m, k) == IF MapHas(m, k) THEN Def(m[MapIndex(m, k)].value) ELSE Undefined
MapSet(m, k, v) ==
    IF MapHas(m, k)
    THEN [m EXCEPT ![MapIndex(m, k)] = [key |-> k, value |-> v]]
    ELSE Append(m, [key |-> k, value |-> v])
MapKeys(m) == [i \in 1..Len(m) |-> m[i].key]
\* map?.get(k) on a map that may itself be undefined
OptGet(om, k) == IF IsDef(om) THEN MapGet(Val(om), k) ELSE Undefined

RECURSIVE Flatten(_)
Flatten(ss) == IF ss = <<>> THEN <<>> ELSE Head(ss) \o Flatten(Tail(ss))

(***************************************************************************)
(* The annotation kinds (one symbol each) and the class-level key.         *)
(***************************************************************************)
CLASS_METADATA == "Symbol(class-metadata)"
METHOD == "method"
PATH == "path"
MIDDLEWARE == "middleware"
TAG == "tag"
SUMMARY == "summary"
DESCRIPTION == "description"
OPERATION_ID == "operationId"
REQUEST_BODY == "requestBody"
RESPONSE == "response"

Kinds == {METHOD, PATH, MIDDLEWARE, TAG, SUMMARY, DESCRIPTION, OPERATION_ID,
          REQUEST_BODY, RESPONSE}
SingleKinds == {METHOD, SUMMARY, DESCRIPTION, OPERATION_ID, REQUEST_BODY}
MultiKinds == {PATH, MIDDLEWARE, TAG, RESPONSE}

(***************************************************************************)
(* The classes of a run and their declarations.  Classes are defined one   *)
(* after the other; within a class the decorators of one member run        *)
(* together, member after member, and the class's own decorators run last. *)
(***************************************************************************)
ClassOrder == <<"A", "B">>
Classes == {ClassOrder[i] : i \in 1..Len(ClassOrder)}
MethodNames == {"foo", "bar"}
Targets == {[kind |-> "method", name |-> "foo"],
            [kind |-> "method", name |-> "bar"],
            [kind |-> "field", name |-> "fld"],
            [kind |-> "class", name |-> ""]}
SiteKeys == MethodNames \cup {CLASS_METADATA}
Idle == [kind |-> "", name |-> ""]

Loading == nDefined < Len(ClassOrder)
CurClass == ClassOrder[nDefined + 1]

\* A decorator can run on target t now.
CanDecorate(t) ==
    /\ Loading
    /\ cur.kind = "class" => t.kind = "class"
    /\ \/ t = cur
       \/ t.kind = "class"
       \/ t.name \notin visited

\* const key = context.kind === 'class' ? CLASS_METADATA : context.name
KeyOf(t) == IF t.kind = "class" THEN CLASS_METADATA ELSE t.name

Enter(t) ==
    /\ cur' = t
    /\ visited' = IF t.kind = "class" THEN visited ELSE visited \cup {t.name}
    /\ apps' = apps + 1
    /\ UNCHANGED <<metadataSupport, inherits, nDefined, callVars>>

Throw(op, err) ==
    /\ lastOp' = op
    /\ thrown' = err
    /\ UNCHANGED <<metadata, attempts>>

Record(c, kind, key, vs) ==
    attempts' = [attempts EXCEPT ![c][kind][key] = @ \o vs]

\* The class whose metadata object holds the Map that context.metadata[kind]
\* gives while class c is defined.  The metadata object of a class that
\* extends another has the parent's metadata object as its prototype, so the
\* read finds the parent's Map when the class has none of its own, and ??=
\* then assigns nothing.
Parent(c) == IF inherits /\ c = "B" THEN Def("A") ELSE Undefined

MapHolder(md, c, kind) ==
    IF ~IsDef(md[c][kind]) /\ IsDef(Parent(c)) /\ IsDef(md[Val(Parent(c))][kind])
    THEN Val(Parent(c))
    ELSE c

\* A set that replaces the value of the site instead of throwing.
SetOnceOverwriting(op, kind, key, v) ==
    /\ lastOp' = op
    /\ Record(CurClass, kind, key, <<v>>)
    /\ thrown' = ""
    /\ metadata' = [metadata EXCEPT
                      ![MapHolder(metadata, CurClass, kind)][kind] =
                          Def(MapSet(Coalesce(@, Def(NewMap))[1], key, v))]

\* context.metadata[KIND] ??= new Map(); then
\* if (map.has(key)) throw ...; map.set(key, value)
SetOnce(op, kind, key, v) ==
    LET c == MapHolder(metadata, CurClass, kind)
        map == Coalesce(metadata[c][kind], Def(NewMap))[1]
    IN  /\ lastOp' = op
        /\ Record(CurClass, kind, key, <<v>>)
        /\ IF MapHas(map, key)
           THEN /\ thrown' = "DuplicateAnnotation"
                /\ metadata' = [metadata EXCEPT ![c][kind] = Def(map)]
           ELSE /\ thrown' = ""
                /\ metadata' = [metadata EXCEPT ![c][kind] = Def(MapSet(map, key, v))]

\* A push that puts the new values before the ones the site has.
PushAllInFront(op, kind, key, vs) ==
    /\ lastOp' = op
    /\ thrown' = ""
    /\ Record(CurClass, kind, key, vs)
    /\ metadata' = [metadata EXCEPT
                      ![MapHolder(metadata, CurClass, kind)][kind] =
                          Def(MapSet(Coalesce(@, Def(NewMap))[1], key,
                                     vs \o Coalesce(OptGet(@, key), Def(<<>>))[1]))]

\* context.metadata[KIND] ??= new Map(); then
\* let list = map.get(key); if (!list) map.set(key, list = []); list.push(...values)
PushAll(op, kind, key, vs) ==
    LET c == MapHolder(metadata, CurClass, kind)
        map == Coalesce(metadata[c][kind], Def(NewMap))[1]
        list == Coalesce(MapGet(map, key), Def(<<>>))[1]
    IN  /\ lastOp' = op
        /\ thrown' = ""
        /\ Record(CurClass, kind, key, vs)
        /\ metadata' = [metadata EXCEPT ![c][kind] = Def(MapSet(map, key, list \o vs))]

\* The two guards every class-or-method decorator starts with.
ClassOrMethod(op, t, body) ==
    IF t.kind # "class" /\ t.kind # "method" THEN Throw(op, "UnsupportedTarget")
    ELSE IF ~metadataSupport THEN Throw(op, "MetadataUnavailable")
    ELSE body

\* The two guards every method-only decorator starts with.
MethodOnly(op, t, body) ==
    IF t.kind # "method" THEN Throw(op, "UnsupportedTarget")
    ELSE IF ~metadataSupport THEN Throw(op, "MetadataUnavailable")
    ELSE body

\* @method(v)
method(t, v) ==
    /\ CanDecorate(t)
    /\ Enter(t)
    /\ ClassOrMethod("method", t, SetOnce("method", METHOD, KeyOf(t), v))

\* @path(p)
path(t, p) ==
    /\ CanDecorate(t)
    /\ Enter(t)
    /\ ClassOrMethod("path", t, PushAll("path", PATH, KeyOf(t), <<p>>))

\* @middleware(...middlewares)
middleware(t, mws) ==
    /\ CanDecorate(t)
    /\ Enter(t)
    /\ ClassOrMethod("middleware", t, PushAll("middleware", MIDDLEWARE, KeyOf(t), mws))

\* @tag(...tags)
tag(t, tags) ==
    /\ CanDecorate(t)
    /\ Enter(t)
    /\ ClassOrMethod("tag", t, PushAll("tag", TAG, KeyOf(t), tags))

\* @summary(s)
summary(t, s) ==
    /\ CanDecorate(t)
    /\ Enter(t)
    /\ MethodOnly("summary", t, SetOnce("summary", SUMMARY, t.name, s))

\* @description(d)
description(t, d) ==
    /\ CanDecorate(t)
    /\ Enter(t)
    /\ MethodOnly("description", t, SetOnce("description", DESCRIPTION, t.name, d))

\* @operationId(id)
operationId(t, id) ==
    /\ CanDecorate(t)
    /\ Enter(t)
    /\ MethodOnly("operationId", t, SetOnce("operationId", OPERATION_ID, t.name, id))

\* @requestBody(body)
requestBody(t, body) ==
    /\ CanDecorate(t)
    /\ Enter(t)
    /\ MethodOnly("requestBody", t, SetOnce("requestBody", REQUEST_BODY, t.name, body))

\* @response(code, content, description, headers)
response(t, r) ==
    /\ CanDecorate(t)
    /\ Enter(t)
    /\ ClassOrMethod("response", t, PushAll("response", RESPONSE, KeyOf(t), <<r>>))

\* The class body has been evaluated: its constructor now carries the metadata.
EndClass ==
    /\ Loading
    /\ nDefined' = nDefined + 1
    /\ cur' = Idle
    /\ visited' = {}
    /\ lastOp' = "class"
    /\ thrown' = ""
    /\ UNCHANGED <<metadataSupport, inherits, metadata, apps, attempts, callVars>>

(***************************************************************************)
(* Inputs of the resolvers: controller instances, verbs, strings.          *)
(***************************************************************************)
A1 == [cls |-> "A", id |-> 1]
A2 == [cls |-> "A", id |-> 2]
B1 == [cls |-> "B", id |-> 1]

RECURSIVE SeqsUpTo(_, _)
SeqsUpTo(S, n) ==
    IF n = 0 THEN {<<>>}
    ELSE LET shorter == SeqsUpTo(S, n - 1)
         IN  shorter \cup {Append(q, x) : q \in shorter, x \in S}

\* The arrays of at most MaxControllers instances, up to exchanging the two
\* instances of class A (the second never comes before the first).
ControllerLists(instances) ==
    {cs \in SeqsUpTo(instances, MaxControllers) :
        /\ cs # <<>>
        /\ \A i \in 1..Len(cs) : cs[i] = A2 => \E j \in 1..(i - 1) : cs[j] = A1}

\* String.prototype.toLowerCase on the verbs of MethodMetadata
ToLowerCase(m) ==
    CASE m = "GET" -> "get"
      [] m = "POST" -> "post"
      [] m = "PUT" -> "put"
      [] m = "DELETE" -> "delete"
      [] m = "HEAD" -> "head"
      [] m = "OPTIONS" -> "options"
      [] m = "PATCH" -> "patch"
      [] m = "TRACE" -> "trace"

\* (controller.constructor)[Symbol.metadata]: undefined for a class no decorator
\* stored anything for (its metadata object is then absent or empty, and either
\* way md[PATH] is undefined).
MetadataOf(controller) ==
    IF \E k \in Kinds : IsDef(metadata[MapHolder(metadata, controller.cls, k)][k])
    THEN Def([k \in Kinds |-> metadata[MapHolder(metadata, controller.cls, k)][k]])
    ELSE Undefined

\* controller[handlerName].bind(controller)
Bind(controller, handlerName) == [name |-> handlerName, this |-> controller]

(***************************************************************************)
(* registerControllers                                                     *)
(***************************************************************************)
\* A join that puts a separator between the two parts.
RoutePathSeparated(classPath, methodPath) == classPath \o <<"/">> \o methodPath

\* const path = classPath + methodPath
RoutePath(classPath, methodPath) == classPath \o methodPath

\* const method = methodMap?.get(handlerName) ?? classMethod ?? 'GET'
RouteMethod(md, handlerName, classMethod) ==
    Coalesce(OptGet(md[METHOD], handlerName), Def(classMethod))[1]

\* The method-level middlewares put before the class-level ones.
RouteMiddlewaresMethodFirst(md, handlerName, classMiddlewares) ==
    Coalesce(OptGet(md[MIDDLEWARE], handlerName), Def(<<>>))[1] \o classMiddlewares

\* const middlewares = [...classMiddlewares, ...(middlewareMap?.get(handlerName) ?? [])]
RouteMiddlewares(md, handlerName, classMiddlewares) ==
    classMiddlewares \o Coalesce(OptGet(md[MIDDLEWARE], handlerName), Def(<<>>))[1]

\* A class without class-level paths taken as having no class path at all.
ClassPathsOrNone(pathMap) == Coalesce(MapGet(pathMap, CLASS_METADATA), Def(<<>>))[1]

\* const classPaths = pathMap?.get(CLASS_METADATA) ?? ['']
ClassPaths(pathMap) == Coalesce(MapGet(pathMap, CLASS_METADATA), Def(<< <<>> >>))[1]

\* The two inner loops exchanged: method paths outside, class paths inside.
RoutesOfHandlerMethodPathsOuter(controller, md, classPaths, classMethod, classMiddlewares, handlerName, methodPaths) ==
    Flatten([j \in 1..Len(methodPaths) |->
        [i \in 1..Len(classPaths) |->
            [method |-> RouteMethod(md, handlerName, classMethod),
             path |-> RoutePath(classPaths[i], methodPaths[j]),
             middlewares |-> RouteMiddlewares(md, handlerName, classMiddlewares),
             handler |-> Bind(controller, handlerName)]]])

\* A pass that builds the chain of a method in the list the store holds for
\* the class: classMiddlewares.push(...methodMiddlewares).
StoreAfterPushing(md, controllers) ==
    [c \in Classes |->
        IF /\ \E n \in 1..Len(controllers) : controllers[n].cls = c
           /\ IsDef(md[c][MIDDLEWARE])
           /\ MapHas(Val(md[c][MIDDLEWARE]), CLASS_METADATA)
        THEN [md[c] EXCEPT ![MIDDLEWARE] =
                 Def(MapSet(Val(@), CLASS_METADATA,
                            Val(MapGet(Val(@), CLASS_METADATA)) \o <<"m1">>))]
        ELSE md[c]]

\* The store after a pass of a resolver over controllers: the passes read the
\* maps and the lists (get, entries, spread, for-of) and write to none.
StoreAfter(md, controllers) == md

\* The records pushed to info for one (handlerName, methodPaths) entry of pathMap.
RoutesOfHandler(controller, md, classPaths, classMethod, classMiddlewares, handlerName, methodPaths) ==
    Flatten([i \in 1..Len(classPaths) |->
        [j \in 1..Len(methodPaths) |->
            [method |-> RouteMethod(md, handlerName, classMethod),
             path |-> RoutePath(classPaths[i], methodPaths[j]),
             middlewares |-> RouteMiddlewares(md, handlerName, classMiddlewares),
             handler |-> Bind(controller, handlerName)]]])

\* The records pushed to info for one controller of the array.
RoutesOfController(controller) ==
    LET omd == MetadataOf(controller)
    IN  IF ~IsDef(omd) THEN <<>>
        ELSE LET md == Val(omd)
                 pathMap == md[PATH]
             IN  IF ~IsDef(pathMap) \/ Len(Val(pathMap)) = 0 THEN <<>>
                 ELSE LET pm == Val(pathMap)
                          classPaths == ClassPaths(pm)
                          classMethod == Coalesce(OptGet(md[METHOD], CLASS_METADATA), Def("GET"))[1]
                          classMiddlewares == Coalesce(OptGet(md[MIDDLEWARE], CLASS_METADATA), Def(<<>>))[1]
                      IN  Flatten([h \in 1..Len(pm) |->
                              IF pm[h].key = CLASS_METADATA THEN <<>>
                              ELSE RoutesOfHandler(controller, md, classPaths, classMethod,
                                                   classMiddlewares, pm[h].key, pm[h].value)])

ResolveRoutes(controllers) ==
    Flatten([n \in 1..Len(controllers) |-> RoutesOfController(controllers[n])])

\* registrar[verb](path, ...middlewares, handler)
RegistrarCall(r) ==
    [verb |-> ToLowerCase(r.method), args |-> <<r.path>> \o r.middlewares \o <<r.handler>>]

\* What the call leaves behind once the loops are over.
Registered(routes) ==
    /\ thrown' = ""
    /\ info' = Def(routes)
    /\ registrarCalls' = [n \in 1..Len(routes) |-> RegistrarCall(routes[n])]

\* controller[handlerName] is a function: false for an instance that holds
\* something else under the name of a decorated method (A3 and its bar).
Bindable(handler) == ~(handler.this.id = 3 /\ handler.name = "bar")

\* The registrar is the caller's: it throws on the paths it does not accept,
\* here those with one of the characters of registrar.rejects.
Rejects(registrar, r) == \E i \in 1..Len(r.path) : r.path[i] \in registrar.rejects
Accepting == [rejects |-> {}]
Strict == [rejects |-> {":"}]

\* The first record of routes that the pass fails on, 0 when there is none.
RECURSIVE FirstFailure(_, _, _)
FirstFailure(routes, registrar, k) ==
    IF k > Len(routes) THEN 0
    ELSE IF ~Bindable(routes[k].handler) \/ Rejects(registrar, routes[k]) THEN k
    ELSE FirstFailure(routes, registrar, k + 1)

\* A pass that takes back its registrar calls when it fails.
CallsRolledBack(routes, k) == <<>>

\* The registrar calls that returned before record k was reached.
CallsBefore(routes, k) == [n \in 1..(k - 1) |-> RegistrarCall(routes[n])]

\* What the call leaves behind when record k throws: .bind on what is not a
\* function, or the registrar call.
Failed(routes, k) ==
    /\ thrown' = IF ~Bindable(routes[k].handler) THEN "TypeError" ELSE "RegistrarError"
    /\ info' = Undefined
    /\ registrarCalls' = CallsBefore(routes, k)

RegisterAll(registrar, routes) ==
    IF FirstFailure(routes, registrar, 1) = 0 THEN Registered(routes)
    ELSE Failed(routes, FirstFailure(routes, registrar, 1))

registerControllersOn(registrar, controllers) ==
    /\ ~Loading
    /\ lastOp' = "registerControllers"
    /\ callArgs' = [controllers |-> controllers, base |-> Undefined, gen |-> Undefined,
                    passed |-> Undefined, registrar |-> Def(registrar)]
    /\ openapi' = Undefined
    /\ IF ~metadataSupport
       THEN /\ thrown' = "MetadataUnavailable"
            /\ info' = Undefined
            /\ registrarCalls' = <<>>
       ELSE RegisterAll(registrar, ResolveRoutes(controllers))
    /\ metadata' = StoreAfter(metadata, controllers)
    /\ UNCHANGED <<metadataSupport, inherits, nDefined, cur, visited, apps, attempts, kept>>

\* registerControllers on a registrar that accepts every path.
registerControllers(controllers) == registerControllersOn(Accepting, controllers)

(***************************************************************************)
(* Express path parameters: the two regular expressions of                 *)
(* getOpenAPISchema, /:([a-zA-Z0-9_]+)(?:\(((?:\\\)|[^)])+)\))?/g, matched *)
(* on sequences of characters.                                             *)
(***************************************************************************)
Lower == {"a", "b", "c", "d", "e", "f", "g", "h", "i", "j", "k", "l", "m",
          "n", "o", "p", "q", "r", "s", "t", "u", "v", "w", "x", "y", "z"}
Upper == {"A", "B", "C", "D", "E", "F", "G", "H", "I", "J", "K", "L", "M",
          "N", "O", "P", "Q", "R", "S", "T", "U", "V", "W", "X", "Y", "Z"}
Digit == {"0", "1", "2", "3", "4", "5", "6", "7", "8", "9"}
\* [a-zA-Z0-9_]
WordChar == Lower \cup Upper \cup Digit \cup {"_"}
Backslash == "\\"

\* [a-zA-Z0-9_]+ from position i: the position after the longest run
RECURSIVE WordEnd(_, _)
WordEnd(s, i) == IF i <= Len(s) /\ s[i] \in WordChar THEN WordEnd(s, i + 1) ELSE i

\* (?:\\\)|[^)])+\) from position i, n iterations of the group done: the
\* position of the closing parenthesis the backtracking matcher settles on
\* (it prefers \) as an escaped pair, and falls back to reading the backslash
\* as an ordinary character when nothing closes the group later), 0 if none.
RECURSIVE CloseParen(_, _, _)
CloseParen(s, i, n) ==
    IF i > Len(s) THEN 0
    ELSE IF s[i] = Backslash /\ i + 1 <= Len(s) /\ s[i + 1] = ")"
    THEN LET later == CloseParen(s, i + 2, n + 1)
         IN  IF later # 0 THEN later ELSE CloseParen(s, i + 1, n + 1)
    ELSE IF s[i] # ")" THEN CloseParen(s, i + 1, n + 1)
    ELSE IF n > 0 THEN i ELSE 0

\* One attempt of the expression at position i: [ok, name, pattern, next].
ParamMatch(s, i) ==
    LET j == WordEnd(s, i + 1)
        k == IF j <= Len(s) /\ s[j] = "(" THEN CloseParen(s, j + 1, 0) ELSE 0
    IN  IF i > Len(s) \/ s[i] # ":" \/ j = i + 1
        THEN [ok |-> FALSE, name |-> <<>>, pattern |-> Undefined, next |-> i + 1]
        ELSE IF k = 0
        THEN [ok |-> TRUE, name |-> SubSeq(s, i + 1, j - 1), pattern |-> Undefined, next |-> j]
        ELSE [ok |-> TRUE, name |-> SubSeq(s, i + 1, j - 1),
              pattern |-> Def(SubSeq(s, j + 1, k - 1)), next |-> k + 1]

\* path.replace(/:(...)(?:\(...\))?/g, '{$1}') from position i on
RECURSIVE ReplaceParams(_, _)
ReplaceParams(s, i) ==
    IF i > Len(s) THEN <<>>
    ELSE LET m == ParamMatch(s, i)
         IN  IF m.ok THEN <<"{">> \o m.name \o <<"}">> \o ReplaceParams(s, m.next)
             ELSE <<s[i]>> \o ReplaceParams(s, i + 1)

\* The path taken as the key as it is.
OaPathUntranslated(p) == p

OaPath(p) == ReplaceParams(p, 1)

\* pattern.split('|')
RECURSIVE SplitPipe(_, _)
SplitPipe(s, acc) ==
    IF s = <<>> THEN <<acc>>
    ELSE IF Head(s) = "|" THEN <<acc>> \o SplitPipe(Tail(s), <<>>)
    ELSE SplitPipe(Tail(s), Append(acc, Head(s)))

\* pattern.match(/^[a-zA-Z0-9_|]+$/)
EnumRegex(pattern) ==
    /\ Len(pattern) > 0
    /\ \A i \in 1..Len(pattern) : pattern[i] \in WordChar \cup {"|"}

\* The schema of one path parameter (the absent members are empty).
ParamSchema(pattern) ==
    IF IsDef(pattern)
    THEN IF EnumRegex(Val(pattern))
         THEN [type |-> "string", enum |-> Def(SplitPipe(Val(pattern), <<>>)), pattern |-> Undefined]
         ELSE [type |-> "string", enum |-> Undefined, pattern |-> Def(Val(pattern))]
    ELSE [type |-> "string", enum |-> Undefined, pattern |-> Undefined]

\* The while ((match = paramRegex.exec(path)) !== null) loop from position i on.
RECURSIVE PathParameters(_, _)
PathParameters(s, i) ==
    IF i > Len(s) THEN <<>>
    ELSE LET m == ParamMatch(s, i)
         IN  IF m.ok
             THEN <<[name |-> m.name, in |-> "path", required |-> TRUE,
                     schema |-> ParamSchema(m.pattern)]>> \o PathParameters(s, m.next)
             ELSE PathParameters(s, i + 1)

(***************************************************************************)
(* Schema names and the built-in default responses.                        *)
(***************************************************************************)
\* '#/components/schemas/'
SchemasRoot == <<"#", "/", "c", "o", "m", "p", "o", "n", "e", "n", "t", "s",
                 "/", "s", "c", "h", "e", "m", "a", "s", "/">>

\* A schema object; absent members are "" (type) or undefined.
Schema(type, ref, itemsRef, example) ==
    [type |-> type, ref |-> ref, itemsRef |-> itemsRef, example |-> example]
NoSchema == Schema("", Undefined, Undefined, Undefined)

\* name.endsWith('[]')
EndsWithBrackets(name) ==
    Len(name) >= 2 /\ name[Len(name) - 1] = "[" /\ name[Len(name)] = "]"

\* The reference without the array rule.
nameToSchemaRefPlain(name) == Schema("", Def(SchemasRoot \o name), Undefined, Undefined)

nameToSchemaRef(name) ==
    IF EndsWithBrackets(name)
    THEN Schema("array", Undefined, Def(SchemasRoot \o SubSeq(name, 1, Len(name) - 2)), Undefined)
    ELSE Schema("", Def(SchemasRoot \o name), Undefined, Undefined)

\* One value of a content object: a schema name still to resolve, or a media
\* type object { schema }.
MediaName(name) == [isString |-> TRUE, name |-> name, schema |-> NoSchema]
Media(schema) == [isString |-> FALSE, name |-> <<>>, schema |-> schema]

TextPlain(example) ==
    <<[key |-> "text/plain", value |-> Media(Schema("string", Undefined, Undefined, example))]>>

defaultResponses ==
    <<[key |-> <<"2", "0", "0">>,
       value |-> [description |-> "Successful request", content |-> Def(TextPlain(Undefined))]],
      [key |-> <<"2", "0", "4">>,
       value |-> [description |-> "Successful request, no content to return", content |-> Undefined]],
      [key |-> <<"4", "0", "0">>,
       value |-> [description |-> "Bad request", content |-> Def(TextPlain(Def("Bad Request")))]],
      [key |-> <<"4", "0", "1">>,
       value |-> [description |-> "Unauthorized", content |-> Def(TextPlain(Def("Unauthorized")))]],
      [key |-> <<"4", "0", "3">>,
       value |-> [description |-> "Forbidden", content |-> Def(TextPlain(Def("Forbidden")))]],
      [key |-> <<"4", "0", "4">>,
       value |-> [description |-> "Not found", content |-> Def(TextPlain(Def("Not Found")))]],
      [key |-> <<"5", "0", "0">>,
       value |-> [description |-> "Internal server error",
                  content |-> Def(TextPlain(Def("Internal Server Error")))]]>>

\* String(code) for a non-negative integer
DigitOf(d) == <<"0", "1", "2", "3", "4", "5", "6", "7", "8", "9">>[d + 1]
RECURSIVE String(_)
String(n) == IF n < 10 THEN <<DigitOf(n)>> ELSE Append(String(n \div 10), DigitOf(n % 10))

\* The number an integer-like property key stands for.
RECURSIVE KeyNumber(_)
KeyNumber(k) ==
    IF k = <<>> THEN 0
    ELSE 10 * KeyNumber(SubSeq(k, 1, Len(k) - 1))
         + (CHOOSE d \in 0..9 : DigitOf(d) = k[Len(k)])

\* obj[key] = v on an object whose keys are integer-like: such keys enumerate
\* in ascending numeric order whatever the order of assignment.
SetIndexed(obj, k, v) ==
    IF MapHas(obj, k) THEN MapSet(obj, k, v)
    ELSE LET before == SelectSeq(obj, LAMBDA e : KeyNumber(e.key) < KeyNumber(k))
             after == SelectSeq(obj, LAMBDA e : KeyNumber(e.key) > KeyNumber(k))
         IN  before \o <<[key |-> k, value |-> v]>> \o after

(***************************************************************************)
(* getOpenAPISchema                                                        *)
(***************************************************************************)
\* [...new Set(list)]
RECURSIVE Dedupe(_, _)
Dedupe(list, seen) ==
    IF list = <<>> THEN <<>>
    ELSE IF Head(list) \in seen THEN Dedupe(Tail(list), seen)
    ELSE <<Head(list)>> \o Dedupe(Tail(list), seen \cup {Head(list)})

\* The content of one response tuple, once its shorthands are resolved:
\* [err, content].
ResponseContent(r) ==
    LET codeStr == String(r.code)
        dflt == MapGet(defaultResponses, codeStr)
    IN  IF ~IsDef(r.content) /\ ~IsDef(dflt)
        THEN [err |-> "TypeError", content |-> Undefined]    \* 'content' in undefined
        ELSE LET userContent == IF IsDef(r.content) THEN r.content
                                ELSE IF IsDef(Val(dflt).content)
                                     THEN Def([isString |-> FALSE, name |-> <<>>,
                                               map |-> Val(Val(dflt).content)])
                                     ELSE Undefined
             IN  IF ~IsDef(userContent) THEN [err |-> "", content |-> Undefined]
                 ELSE IF Val(userContent).isString
                 THEN [err |-> "",
                       content |-> Def(<<[key |-> "application/json",
                                          value |-> Media(nameToSchemaRef(Val(userContent).name))]>>)]
                 ELSE [err |-> "",
                       content |-> Def([i \in 1..Len(Val(userContent).map) |->
                           LET e == Val(userContent).map[i]
                           IN  IF e.value.isString
                               THEN [key |-> e.key, value |-> Media(nameToSchemaRef(e.value.name))]
                               ELSE e])]

\* The entry of a tuple merged field by field into the entry its code has.
MergedEntry(r, c, existing) ==
    [description |->
         IF IsDef(r.description) THEN Val(r.description)
         ELSE IF IsDef(existing) THEN Val(existing).description
         ELSE IF MapHas(defaultResponses, String(r.code))
              THEN Val(MapGet(defaultResponses, String(r.code))).description
         ELSE "Response",
     content |-> IF IsDef(r.content) \/ ~IsDef(existing) THEN c.content ELSE Val(existing).content,
     headers |-> IF IsDef(r.headers) \/ ~IsDef(existing) THEN r.headers ELSE Val(existing).headers]

\* The loop with a tuple's fields merged into the entry of its code.
RECURSIVE FoldResponsesFieldByField(_, _)
FoldResponsesFieldByField(responses, oaResponses) ==
    IF responses = <<>> THEN [err |-> "", responses |-> oaResponses]
    ELSE IF ResponseContent(Head(responses)).err # ""
    THEN [err |-> ResponseContent(Head(responses)).err, responses |-> oaResponses]
    ELSE FoldResponsesFieldByField(
             Tail(responses),
             SetIndexed(oaResponses, String(Head(responses).code),
                        MergedEntry(Head(responses), ResponseContent(Head(responses)),
                                    MapGet(oaResponses, String(Head(responses).code)))))

\* The for (const { code, content, description, headers } of responses) loop:
\* [err, responses].
RECURSIVE FoldResponses(_, _)
FoldResponses(responses, oaResponses) ==
    IF responses = <<>> THEN [err |-> "", responses |-> oaResponses]
    ELSE LET r == Head(responses)
             codeStr == String(r.code)
             c == ResponseContent(r)
             dflt == MapGet(defaultResponses, codeStr)
             entry == [description |->
                           IF IsDef(r.description) THEN Val(r.description)
                           ELSE IF IsDef(dflt) THEN Val(dflt).description
                           ELSE "Response",
                       content |-> c.content,
                       headers |-> r.headers]
         IN  IF c.err # "" THEN [err |-> c.err, responses |-> oaResponses]
             ELSE FoldResponses(Tail(responses), SetIndexed(oaResponses, codeStr, entry))

\* The request body with a schema name wrapped but not marked required.
OperationRequestBodyOptional(requestBodyValue) ==
    IF ~IsDef(requestBodyValue) THEN Undefined
    ELSE IF Val(requestBodyValue).isString
    THEN Def([content |-> <<[key |-> "application/json",
                             value |-> Media(nameToSchemaRef(Val(requestBodyValue).name))]>>,
              required |-> Undefined])
    ELSE Def(Val(requestBodyValue).object)

\* The request body of an operation: undefined, or a request body object.
OperationRequestBody(requestBodyValue) ==
    IF ~IsDef(requestBodyValue) THEN Undefined
    ELSE IF Val(requestBodyValue).isString
    THEN Def([content |-> <<[key |-> "application/json",
                             value |-> Media(nameToSchemaRef(Val(requestBodyValue).name))]>>,
              required |-> Def(TRUE)])
    ELSE Def(Val(requestBodyValue).object)

\* Which object the request body of an operation is: the one the store holds
\* (oaOperation.requestBody = requestBody) or one made during the call.  In
\* the same way the content of a response entry is always made during the
\* call (a new object or a structuredClone), and its headers are the object
\* the store holds (headers: headers).
RequestBodyOwner(requestBodyValue) ==
    IF IsDef(requestBodyValue) /\ ~Val(requestBodyValue).isString THEN "store" ELSE "call"

\* The operation object of a handler: [err, operation].  Empty strings are
\* falsy: an empty summary, description or operationId is not attached.
Operation(md, handlerName) ==
    LET classTags == Coalesce(OptGet(md[TAG], CLASS_METADATA), Def(<<>>))[1]
        classRequestBody == OptGet(md[REQUEST_BODY], CLASS_METADATA)
        classReponses == Coalesce(OptGet(md[RESPONSE], CLASS_METADATA), Def(<<>>))[1]
        tags == Dedupe(classTags \o Coalesce(OptGet(md[TAG], handlerName), Def(<<>>))[1], {})
        summaryValue == OptGet(md[SUMMARY], handlerName)
        descriptionValue == OptGet(md[DESCRIPTION], handlerName)
        methodOperationId == OptGet(md[OPERATION_ID], handlerName)
        requestBodyValue == Coalesce(OptGet(md[REQUEST_BODY], handlerName), classRequestBody)
        responses == classReponses \o Coalesce(OptGet(md[RESPONSE], handlerName), Def(<<>>))[1]
        folded == FoldResponses(responses, <<>>)
    IN  [err |-> IF Len(responses) > 0 THEN folded.err ELSE "",
         operation |->
            [tags |-> IF Len(tags) > 0 THEN Def(tags) ELSE Undefined,
             summary |-> IF IsDef(summaryValue) /\ Val(summaryValue) # "" THEN summaryValue ELSE Undefined,
             description |-> IF IsDef(descriptionValue) /\ Val(descriptionValue) # ""
                             THEN descriptionValue ELSE Undefined,
             \* every method name of the model is a string, never a symbol
             operationId |-> IF IsDef(methodOperationId) /\ Val(methodOperationId) # ""
                             THEN methodOperationId ELSE Def(handlerName),
             requestBody |-> OperationRequestBody(requestBodyValue),
             responses |-> IF Len(responses) > 0 THEN Def(folded.responses) ELSE Undefined,
             owns |-> [requestBody |-> RequestBodyOwner(requestBodyValue),
                       content |-> "call", headers |-> "store"]]]

\* The (handler, class path, method path) combinations of one controller, in
\* loop order: [md, handlerName, path].
CombosOfController(controller) ==
    LET omd == MetadataOf(controller)
    IN  IF ~IsDef(omd) THEN <<>>
        ELSE LET md == Val(omd)
                 pathMap == md[PATH]
             IN  IF ~IsDef(pathMap) \/ Len(Val(pathMap)) = 0 THEN <<>>
                 ELSE LET pm == Val(pathMap)
                          classPaths == ClassPaths(pm)
                      IN  Flatten([h \in 1..Len(pm) |->
                              IF pm[h].key = CLASS_METADATA THEN <<>>
                              ELSE Flatten([i \in 1..Len(classPaths) |->
                                       [j \in 1..Len(pm[h].value) |->
                                           [md |-> md, handlerName |-> pm[h].key,
                                            path |-> classPaths[i] \o pm[h].value[j]]]])])

\* The operation set without the duplicate check, the later one winning.
PutOperationOverwriting(paths, oaPath, oaPathItem, verb, built) ==
    IF built.err # ""
    THEN [err |-> built.err, paths |-> paths]
    ELSE [err |-> "",
          paths |-> MapSet(paths, oaPath,
                           [oaPathItem EXCEPT !.operations = MapSet(@, verb, built.operation)])]

\* The rest of the innermost loop once the path item is there: the duplicate
\* check and the operation, [err, paths].
PutOperation(paths, oaPath, oaPathItem, verb, built) ==
    IF MapHas(oaPathItem.operations, verb)
    THEN [err |-> "DuplicatePathMethod", paths |-> paths]
    ELSE IF built.err # ""
    THEN [err |-> built.err, paths |-> paths]
    ELSE [err |-> "",
          paths |-> MapSet(paths, oaPath,
                           [oaPathItem EXCEPT !.operations = MapSet(@, verb, built.operation)])]

\* A path item that takes the parameters of every raw path that reaches it.
PathItemReplacingParameters(existing, parameters) ==
    [parameters |-> IF Len(parameters) > 0 THEN Def(parameters)
                    ELSE IF IsDef(existing) THEN Val(existing).parameters ELSE Undefined,
     operations |-> IF IsDef(existing) THEN Val(existing).operations ELSE <<>>]

\* let oaPathItem = openapi.paths[oaPath]; if (!oaPathItem) { ... parameters ... }
PathItem(existing, parameters) ==
    IF IsDef(existing) THEN Val(existing)
    ELSE [parameters |-> IF Len(parameters) > 0 THEN Def(parameters) ELSE Undefined,
          operations |-> <<>>]

\* The class-level value taking precedence over the method-level one.
EffectiveMethodClassFirst(md, handlerName) ==
    Coalesce(OptGet(md[METHOD], CLASS_METADATA),
             Coalesce(OptGet(md[METHOD], handlerName), Def("GET")))[1]

\* method-level @method, else class-level @method, else 'GET'
EffectiveMethod(md, handlerName) ==
    Coalesce(OptGet(md[METHOD], handlerName),
             Coalesce(OptGet(md[METHOD], CLASS_METADATA), Def("GET")))[1]

\* The body of the innermost loop on one combination: [err, paths].
AddOperation(paths, combo) ==
    PutOperation(paths, OaPath(combo.path),
                 PathItem(MapGet(paths, OaPath(combo.path)), PathParameters(combo.path, 1)),
                 ToLowerCase(EffectiveMethod(combo.md, combo.handlerName)),
                 Operation(combo.md, combo.handlerName))

RECURSIVE AddOperations(_, _)
\* The loops from the first of combos on, given the outcome of the steps before.
AddOperations(done, combos) ==
    IF done.err # "" \/ combos = <<>> THEN done
    ELSE AddOperations(AddOperation(done.paths, Head(combos)), Tail(combos))

\* Object.assign(target, source)
RECURSIVE ObjectAssign(_, _)
ObjectAssign(target, source) ==
    IF source = <<>> THEN target
    ELSE ObjectAssign(MapSet(target, Head(source).key, Head(source).value), Tail(source))

\* Which object each mutable part of a document is: the caller's ("base") or
\* one made during the call ("call").  items are the path items that were in
\* the document before the call.
OwnedBy(o) == [root |-> o, paths |-> o, items |-> o, components |-> o, schemas |-> o]

\* A copy of the top-level object alone, {...doc}.
SpreadCopy(doc) == [doc EXCEPT !.owns.root = "call"]

\* structuredClone(doc): every object of the copy is a new one.
structuredClone(doc) == [doc EXCEPT !.owns = OwnedBy("call")]

\* if (!openapi.paths) { openapi.paths = {}; }
WithPaths(doc) ==
    IF IsDef(doc.paths) THEN doc
    ELSE [doc EXCEPT !.paths = Def(<<>>), !.owns.paths = "call", !.owns.items = "call"]

\* The objects of the document once the if (componentsPattern) block has run.
OwnsAfterMerge(doc, gen) ==
    IF ~gen.given \/ gen.throws \/ Len(gen.schemas) = 0 THEN doc.owns
    ELSE IF ~IsDef(doc.components)
    THEN [doc.owns EXCEPT !.components = "call", !.schemas = "call"]
    ELSE IF ~IsDef(Val(doc.components).schemas) THEN [doc.owns EXCEPT !.schemas = "call"]
    ELSE doc.owns

\* The if (componentsPattern) block; generateSchemaDefinitions is the
\* collaborator's result gen: [given, throws, schemas].
MergeComponents(components, gen) ==
    IF ~gen.given \/ gen.throws \/ Len(gen.schemas) = 0 THEN components
    ELSE LET schemas == IF IsDef(components) THEN Coalesce(Val(components).schemas, Def(<<>>))[1]
                        ELSE <<>>
         IN  Def([schemas |-> Def(ObjectAssign(schemas, gen.schemas))])

\* The document the call was working on when it stopped, whatever the outcome.
Written(working, err) == [err |-> err, openapi |-> Undefined, working |-> working]

\* return openapi
Returned(working) == [err |-> "", openapi |-> Def(working), working |-> working]

\* What the call returns or throws once the loops are over:
\* [err, openapi, working].
Finish(clone, added, gen) ==
    IF added.err # "" THEN Written([clone EXCEPT !.paths = Def(added.paths)], added.err)
    ELSE IF gen.given /\ gen.throws
    THEN Written([clone EXCEPT !.paths = Def(added.paths)], "SchemaDerivationFailure")
    ELSE Returned([clone EXCEPT !.paths = Def(added.paths),
                                !.components = MergeComponents(@, gen),
                                !.owns = OwnsAfterMerge(clone, gen)])

AllCombos(controllers) ==
    Flatten([n \in 1..Len(controllers) |-> CombosOfController(controllers[n])])

\* The loops and what follows them, on the copy of the base document.
SynthesizeOn(openapiCopy, controllers, gen) ==
    Finish(openapiCopy,
           AddOperations([err |-> "", paths |-> Val(openapiCopy.paths)], AllCombos(controllers)),
           gen)

Synthesize(baseOpenAPISchema, controllers, gen) ==
    SynthesizeOn(WithPaths(structuredClone(baseOpenAPISchema)), controllers, gen)

\* The path items of a paths object after writes through the items it shares
\* with the paths object written.
RECURSIVE SharedItems(_, _)
SharedItems(paths, written) ==
    IF paths = <<>> THEN <<>>
    ELSE <<[key |-> Head(paths).key,
            value |-> Coalesce(MapGet(written, Head(paths).key), Def(Head(paths).value))[1]]>>
         \o SharedItems(Tail(paths), written)

\* The caller's base document as the call leaves it: every write of the call
\* to an object that the working document shares with the base is a write to
\* the base.
BaseAfter(base, working) ==
    IF working.owns.root = "base" THEN working
    ELSE [base EXCEPT
            !.paths = IF ~IsDef(@) THEN @
                      ELSE IF working.owns.paths = "base" THEN working.paths
                      ELSE IF working.owns.items = "base"
                      THEN Def(SharedItems(Val(@), Val(working.paths)))
                      ELSE @,
            !.components = IF ~IsDef(@) THEN @
                           ELSE IF working.owns.components = "base" THEN working.components
                           ELSE IF working.owns.schemas = "base" /\ IsDef(Val(@).schemas)
                           THEN Def([schemas |-> Val(working.components).schemas])
                           ELSE @]

\* callArgs holds the arguments as they are after the call; passed is the base
\* document as it was when the call began.
Return(result, baseOpenAPISchema, controllers, gen) ==
    /\ thrown' = result.err
    /\ openapi' = result.openapi
    /\ callArgs' = [controllers |-> controllers,
                    base |-> Def(BaseAfter(baseOpenAPISchema, result.working)),
                    gen |-> Def(gen),
                    passed |-> Def(baseOpenAPISchema),
                    registrar |-> Undefined]

getOpenAPISchema(baseOpenAPISchema, controllers, gen) ==
    /\ ~Loading
    /\ lastOp' = "getOpenAPISchema"
    /\ info' = Undefined
    /\ registrarCalls' = <<>>
    /\ IF ~metadataSupport
       THEN /\ thrown' = "MetadataUnavailable"
            /\ openapi' = Undefined
            /\ callArgs' = [controllers |-> controllers, base |-> Def(baseOpenAPISchema),
                            gen |-> Def(gen), passed |-> Def(baseOpenAPISchema),
                            registrar |-> Undefined]
       ELSE Return(Synthesize(baseOpenAPISchema, controllers, gen),
                   baseOpenAPISchema, controllers, gen)
    /\ metadata' = StoreAfter(metadata, controllers)
    /\ UNCHANGED <<metadataSupport, inherits, nDefined, cur, visited, apps, attempts, kept>>

(***************************************************************************)
(* The values the decorators and the resolvers are given.                  *)
(***************************************************************************)
MethodTargets == {t \in Targets : t.kind = "method"}
RouteTargets == {t \in Targets : t.kind \in {"method", "class"}}

PathA == <<"/", "a">>
PathI == <<"/", ":", "i">>
PathIA == <<"/", ":", "i", "(", "a", ")">>
PathPool == {PathA, PathI, PathIA}
MethodPool == {"POST", "PUT"}
MiddlewarePool == {<<"m1">>, <<"m2", "m1">>}

NoGen == [given |-> FALSE, throws |-> FALSE, schemas |-> <<>>]
BaseEmpty ==
    [openapi |-> "3.1.0", info |-> "info", paths |-> Undefined, components |-> Undefined,
     owns |-> OwnedBy("base")]

\* What the caller holds of earlier calls: a document, a route list, and the
\* controllers each was asked for.
NothingKept ==
    [openapi |-> Undefined, info |-> Undefined, of |-> [openapi |-> <<>>, info |-> <<>>]]

(***************************************************************************)
(* Specifications.                                                         *)
(***************************************************************************)
\* Nothing is loaded yet.
Start ==
    /\ metadataSupport \in BOOLEAN
    /\ metadata = [c \in Classes |-> [k \in Kinds |-> Undefined]]
    /\ nDefined = 0
    /\ cur = Idle
    /\ visited = {}
    /\ apps = 0
    /\ attempts = [c \in Classes |-> [k \in Kinds |-> [key \in SiteKeys |-> <<>>]]]
    /\ lastOp = ""
    /\ thrown = ""
    /\ callArgs = [controllers |-> <<>>, base |-> Undefined, gen |-> Undefined,
                   passed |-> Undefined, registrar |-> Undefined]
    /\ info = Undefined
    /\ registrarCalls = <<>>
    /\ kept = NothingKept
    /\ openapi = Undefined

\* Two classes that extend no class.
Init == inherits = FALSE /\ Start

\* class A { ... }; class B extends A { ... }
InitInherit == inherits = TRUE /\ Start

\* Values of the other decorators.
SummaryPool == {"s1"}
DescriptionPool == {"d1"}
OperationIdPool == {"op1"}
TagPool == {<<"t1">>, <<"t2", "t1">>}
Widget == <<"W", "i", "d", "g", "e", "t">>
WidgetList == Widget \o <<"[", "]">>

\* A @requestBody value: a schema name or a request body object.
BodyByName(name) ==
    [isString |-> TRUE, name |-> name, object |-> [content |-> <<>>, required |-> Undefined]]
BodyObject(object) == [isString |-> FALSE, name |-> <<>>, object |-> object]
CustomBody == [content |-> TextPlain(Def("body")), required |-> Def(FALSE)]

\* A @response content argument: a schema name or a content object.
ContentByName(name) == [isString |-> TRUE, name |-> name, map |-> <<>>]
ContentMap(map) == [isString |-> FALSE, name |-> <<>>, map |-> map]
\* The arguments of one @response call.
Tuple(code, content, descr, headers) ==
    [code |-> code, content |-> content, description |-> descr, headers |-> headers]

\* The resolver calls of the routing specifications, on instances of class A.
ResolverCalls ==
    \/ \E cs \in ControllerLists({A1, A2}) : registerControllers(cs)
    \/ \E cs \in ControllerLists({A1, A2}) : getOpenAPISchema(BaseEmpty, cs, NoGen)

\* The resolver calls on one instance of class A, on the same twice, on two.
PairCalls ==
    \/ \E cs \in {<<A1>>, <<A1, A1>>, <<A1, A2>>} : registerControllers(cs)
    \/ \E cs \in {<<A1>>, <<A1, A1>>, <<A1, A2>>} : getOpenAPISchema(BaseEmpty, cs, NoGen)

\* Paths: class A gets @path decorators (class B stays undecorated), then the
\* resolvers run.
NextPath ==
    \/ /\ nDefined = 0
       /\ apps < MaxApps
       /\ \E t \in RouteTargets, p \in PathPool : path(t, p)
    \/ EndClass
    \/ PairCalls

SpecPath == Init /\ [][NextPath]_vars

\* Verbs: two paths that translate to the same OpenAPI path, and @method.
NextVerb ==
    \/ /\ nDefined = 0
       /\ apps < MaxApps
       /\ \/ \E t \in RouteTargets, p \in {PathI, PathIA} : path(t, p)
          \/ \E t \in RouteTargets, v \in MethodPool : method(t, v)
    \/ EndClass
    \/ PairCalls

SpecVerb == Init /\ [][NextVerb]_vars

\* Middleware: one path, and @middleware.
NextMiddleware ==
    \/ /\ nDefined = 0
       /\ apps < MaxApps
       /\ \/ \E t \in RouteTargets : path(t, PathA)
          \/ \E t \in RouteTargets, mws \in MiddlewarePool : middleware(t, mws)
    \/ EndClass
    \/ ResolverCalls

SpecMiddleware == Init /\ [][NextMiddleware]_vars

\* Arrays with an instance of each class, alone, together and repeated.
SiteLists == {<<A1>>, <<B1>>, <<B1, A1>>, <<A1, A1>>}

\* Sites: class A gets paths, verbs and middlewares on the class and on its
\* methods, class B gets verbs and middlewares but no path, and the resolvers
\* run on instances of both.
NextSites ==
    \/ /\ apps < MaxStoreApps
       /\ \/ /\ nDefined = 0
             /\ \E t \in RouteTargets, p \in {PathA, PathI} : path(t, p)
          \/ \E t \in RouteTargets : method(t, "POST")
          \/ \E t \in RouteTargets : middleware(t, <<"m1">>)
    \/ EndClass
    \/ \E cs \in SiteLists : registerControllers(cs)
    \/ \E cs \in SiteLists : getOpenAPISchema(BaseEmpty, cs, NoGen)

SpecSites == Init /\ [][NextSites]_vars

\* Failures: class A gets paths, and registerControllers runs on a registrar
\* that accepts every path or one that throws on some, with instances of
\* which one cannot have its bar bound.
A3 == [cls |-> "A", id |-> 3]
FailLists == {<<A1>>, <<A3>>, <<A1, A3>>, <<A3, A1>>}

NextFail ==
    \/ /\ nDefined = 0
       /\ apps < MaxApps
       /\ \E t \in RouteTargets, p \in {PathA, PathI} : path(t, p)
    \/ EndClass
    \/ \E registrar \in {Accepting, Strict}, cs \in FailLists :
          registerControllersOn(registrar, cs)

SpecFail == Init /\ [][NextFail]_vars

\* The store, single-valued kinds: every such decorator on every kind of
\* target of both classes.
NextSingle ==
    \/ /\ apps < MaxStoreApps
       /\ \/ \E t \in Targets, v \in MethodPool : method(t, v)
          \/ \E t \in Targets, v \in SummaryPool : summary(t, v)
          \/ \E t \in Targets, v \in DescriptionPool : description(t, v)
          \/ \E t \in Targets, v \in OperationIdPool : operationId(t, v)
          \/ \E t \in Targets : requestBody(t, BodyByName(Widget))
    \/ EndClass

SpecSingle == Init /\ [][NextSingle]_vars

\* The store, multi-valued kinds.
NextMulti ==
    \/ /\ apps < MaxStoreApps
       /\ \/ \E t \in Targets, v \in {PathA, PathI} : path(t, v)
          \/ \E t \in Targets, v \in MiddlewarePool : middleware(t, v)
          \/ \E t \in Targets, v \in TagPool : tag(t, v)
          \/ \E t \in Targets :
                response(t, Tuple(200, Def(ContentByName(Widget)), Undefined, Undefined))
    \/ EndClass

SpecMulti == Init /\ [][NextMulti]_vars

\* The targets of the specifications of the document: the two methods take
\* paths, method foo and the class take the other decorators.
Foo == [kind |-> "method", name |-> "foo"]
Bar == [kind |-> "method", name |-> "bar"]
TheClass == [kind |-> "class", name |-> ""]

\* @response(code) alone, for codes with and without a built-in default.
BareResponses == {Tuple(code, Undefined, Undefined, Undefined) : code \in {200, 201, 204, 404}}

NextDefaults ==
    \/ /\ nDefined = 0
       /\ apps < MaxApps
       /\ \/ \E t \in {Foo, Bar}, p \in {PathA, PathI} : path(t, p)
          \/ \E t \in {Foo, TheClass}, r \in BareResponses : response(t, r)
    \/ EndClass
    \/ getOpenAPISchema(BaseEmpty, <<A1>>, NoGen)

SpecDefaults == Init /\ [][NextDefaults]_vars

\* Tuples for one code that give different fields, and one for another code.
FoldResponsesPool ==
    {Tuple(200, Def(ContentMap(<<[key |-> "text/html", value |-> MediaName(Widget)]>>)),
           Def("d1"), Def("h1")),
     Tuple(200, Undefined, Def("d2"), Undefined),
     Tuple(200, Def(ContentByName(Widget)), Undefined, Undefined),
     Tuple(404, Undefined, Undefined, Def("h2"))}

NextFold ==
    \/ /\ nDefined = 0
       /\ apps < MaxApps
       /\ \/ \E t \in {Foo, Bar}, p \in {PathA, PathI} : path(t, p)
          \/ \E t \in {Foo, TheClass}, r \in FoldResponsesPool : response(t, r)
    \/ EndClass
    \/ getOpenAPISchema(BaseEmpty, <<A1>>, NoGen)

SpecFold == Init /\ [][NextFold]_vars

\* Tuples whose content is a schema name, or a content object that holds one.
NamedResponsesPool ==
    {Tuple(200, Def(ContentByName(Widget)), Undefined, Undefined),
     Tuple(200, Def(ContentByName(WidgetList)), Undefined, Undefined),
     Tuple(404, Def(ContentMap(<<[key |-> "application/xml", value |-> MediaName(WidgetList)]>>)),
           Undefined, Undefined)}

NextNames ==
    \/ /\ nDefined = 0
       /\ apps < MaxApps
       /\ \/ \E t \in {Foo, Bar}, p \in {PathA, PathI} : path(t, p)
          \/ \E t \in {Foo, TheClass}, r \in NamedResponsesPool : response(t, r)
    \/ EndClass
    \/ getOpenAPISchema(BaseEmpty, <<A1>>, NoGen)

SpecNames == Init /\ [][NextNames]_vars

\* Request bodies: a schema name, the name of an array, a request body object.
RequestBodyPool == {BodyByName(Widget), BodyByName(WidgetList), BodyObject(CustomBody)}

NextBody ==
    \/ /\ nDefined = 0
       /\ apps < MaxApps
       /\ \/ \E t \in {Foo, Bar}, p \in {PathA, PathI} : path(t, p)
          \/ \E t \in {Foo, Bar, TheClass}, b \in RequestBodyPool : requestBody(t, b)
    \/ EndClass
    \/ getOpenAPISchema(BaseEmpty, <<A1>>, NoGen)

SpecBody == Init /\ [][NextBody]_vars

\* Path translation: one method path on foo, any string over the characters
\* the two regular expressions tell apart, then the synthesis.
PathAlphabet == {":", "i", "(", ")", Backslash, "|"}
AllPaths == UNION {[1..n -> PathAlphabet] : n \in 0..MaxPathLen}

NextTranslate ==
    \/ /\ nDefined = 0
       /\ apps = 0
       /\ \E p \in AllPaths : path(Foo, p)
    \/ EndClass
    \/ getOpenAPISchema(BaseEmpty, <<A1>>, NoGen)

SpecTranslate == Init /\ [][NextTranslate]_vars

\* A base document that has a path entry, with an operation, and a schema.
BaseOperation ==
    [tags |-> Undefined, summary |-> Def("base"), description |-> Undefined,
     operationId |-> Def("baseOp"), requestBody |-> Undefined, responses |-> Undefined,
     owns |-> [requestBody |-> "call", content |-> "call", headers |-> "call"]]
BaseWithPaths ==
    [openapi |-> "3.1.0", info |-> "info",
     paths |-> Def(<<[key |-> PathA,
                      value |-> [parameters |-> Undefined,
                                 operations |-> <<[key |-> "get", value |-> BaseOperation]>>]]>>),
     components |-> Def([schemas |-> Def(<<[key |-> "Old", value |-> "schema0"]>>)]),
     owns |-> OwnedBy("base")]
\* A base document with components that hold no schemas.
BaseBare ==
    [openapi |-> "3.1.0", info |-> "info", paths |-> Undefined,
     components |-> Def([schemas |-> Undefined]), owns |-> OwnedBy("base")]
BasePool == {BaseEmpty, BaseWithPaths, BaseBare}

\* What generateSchemaDefinitions does: not called, a schema, none, a throw.
GenWidget == [given |-> TRUE, throws |-> FALSE, schemas |-> <<[key |-> "Widget", value |-> "schema1"]>>]
GenNothing == [given |-> TRUE, throws |-> FALSE, schemas |-> <<>>]
GenThrows == [given |-> TRUE, throws |-> TRUE, schemas |-> <<>>]
GenPool == {NoGen, GenWidget, GenNothing, GenThrows}

\* The caller changes an object of the document it was returned: it empties
\* the paths object, a path item, the components object or the schemas object.
\* An object that the document shares with the base changes in the base too.
EmptiedItems(paths) ==
    [i \in 1..Len(paths) |-> [paths[i] EXCEPT !.value.operations = <<>>]]

Emptied(doc, part) ==
    CASE part = "paths" -> [doc EXCEPT !.paths = IF IsDef(@) THEN Def(<<>>) ELSE @]
      [] part = "items" -> [doc EXCEPT !.paths = IF IsDef(@) THEN Def(EmptiedItems(Val(@))) ELSE @]
      [] part = "components" ->
            [doc EXCEPT !.components = IF IsDef(@) THEN Def([schemas |-> Undefined]) ELSE @]
      [] part = "schemas" ->
            [doc EXCEPT !.components = IF IsDef(@) /\ IsDef(Val(@).schemas)
                                       THEN Def([schemas |-> Def(<<>>)]) ELSE @]

DocumentParts == {"paths", "items", "components", "schemas"}

mutate(part) ==
    /\ lastOp \in {"getOpenAPISchema", "mutate"}
    /\ IsDef(openapi)
    /\ lastOp' = "mutate"
    /\ thrown' = ""
    /\ openapi' = Def(Emptied(Val(openapi), part))
    /\ callArgs' = [callArgs EXCEPT
                      !.base = IF Val(openapi).owns[part] = "base"
                               THEN Def(Emptied(Val(@), part)) ELSE @]
    /\ UNCHANGED <<storeVars, info, registrarCalls, kept>>

\* The base document: class A with paths and verbs, any base, any outcome of
\* the schema generator, and a caller that changes what it was returned.
NextBase ==
    \/ /\ nDefined = 0
       /\ apps < MaxStoreApps
       /\ \/ \E t \in {Foo, Bar}, p \in {PathA, PathI} : path(t, p)
          \/ \E t \in {Foo, TheClass}, v \in MethodPool : method(t, v)
    \/ EndClass
    \/ \E b \in BasePool, g \in GenPool : getOpenAPISchema(b, <<A1>>, g)
    \/ \E part \in DocumentParts : mutate(part)

SpecBase == Init /\ [][NextBase]_vars

\* The caller changes a part of the operations of site m in the document it
\* was returned last: it empties the content of the request body, empties the
\* content of the responses, or replaces the headers of the responses.
ChangedEntry(e, part) ==
    CASE part = "content" -> [e EXCEPT !.content = IF IsDef(@) THEN Def(<<>>) ELSE @]
      [] part = "headers" -> [e EXCEPT !.headers = IF IsDef(@) THEN Def("changed") ELSE @]

ChangedOperation(op, part) ==
    IF part = "requestBody"
    THEN [op EXCEPT !.requestBody = IF IsDef(@) THEN Def([Val(@) EXCEPT !.content = <<>>]) ELSE @]
    ELSE [op EXCEPT !.responses =
              IF IsDef(@)
              THEN Def([i \in 1..Len(Val(@)) |->
                           [Val(@)[i] EXCEPT !.value = ChangedEntry(@, part)]])
              ELSE @]

\* The operations of site m of a document changed: all of them, or those
\* alone that hold the part as the object the store holds.
ChangedOperations(operations, m, part, sharedOnly) ==
    [j \in 1..Len(operations) |->
        IF /\ operations[j].value.operationId = Def(m)
           /\ ~sharedOnly \/ operations[j].value.owns[part] = "store"
        THEN [operations[j] EXCEPT !.value = ChangedOperation(@, part)]
        ELSE operations[j]]

ChangedDocument(doc, m, part, sharedOnly) ==
    [doc EXCEPT !.paths =
        Def([i \in 1..Len(Val(@)) |->
                [Val(@)[i] EXCEPT !.value.operations = ChangedOperations(@, m, part, sharedOnly)]])]

\* The tuples of a list that give the entry of their code: the last of each.
ChangedTuples(list) ==
    [i \in 1..Len(list) |->
        IF IsDef(list[i].headers) /\ \A j \in (i + 1)..Len(list) : list[j].code # list[i].code
        THEN [list[i] EXCEPT !.headers = Def("changed")]
        ELSE list[i]]

\* The store of class c after a change of the objects it shares.
ChangedStore(md, m, part) ==
    CASE part = "requestBody" ->
            [md EXCEPT ![REQUEST_BODY] =
                IF IsDef(@) /\ MapHas(Val(@), m) /\ ~Val(MapGet(Val(@), m)).isString
                THEN Def(MapSet(Val(@), m,
                                [Val(MapGet(Val(@), m)) EXCEPT !.object.content = <<>>]))
                ELSE @]
      [] part = "headers" ->
            [md EXCEPT ![RESPONSE] =
                IF IsDef(@) /\ MapHas(Val(@), m)
                THEN Def(MapSet(Val(@), m, ChangedTuples(Val(MapGet(Val(@), m)))))
                ELSE @]
      [] part = "content" -> md

OperationParts == {"requestBody", "content", "headers"}

\* Whether some operation of site m of the document holds the part.
HoldsPart(doc, m, part) ==
    \E e \in {e \in UNION {{o.value : o \in {Val(doc.paths)[i].value.operations[j] :
                                              j \in 1..Len(Val(doc.paths)[i].value.operations)}} :
                          i \in 1..Len(Val(doc.paths))} : e.operationId = Def(m)} :
        IF part = "requestBody" THEN IsDef(e.requestBody)
        ELSE /\ IsDef(e.responses)
             /\ \E k \in 1..Len(Val(e.responses)) : IsDef(Val(e.responses)[k].value[part])

\* The caller keeps the route list it was returned.
keepRoutes ==
    /\ lastOp = "registerControllers"
    /\ IsDef(info)
    /\ lastOp' = "keepRoutes"
    /\ kept' = [kept EXCEPT !.info = info, !.of.info = callArgs.controllers]
    /\ UNCHANGED <<storeVars, thrown, callArgs, info, registrarCalls, openapi>>

\* The caller keeps the document it was returned.
keep ==
    /\ lastOp = "getOpenAPISchema"
    /\ IsDef(openapi)
    /\ lastOp' = "keep"
    /\ kept' = [kept EXCEPT !.openapi = openapi, !.of.openapi = callArgs.controllers]
    /\ UNCHANGED <<storeVars, thrown, callArgs, info, registrarCalls, openapi>>

\* Responses are on methods alone here: a class-level tuple would be shared
\* by the operations of every method.
mutateOperation(m, part) ==
    /\ lastOp \in {"getOpenAPISchema", "keep", "mutateOperation"}
    /\ IsDef(openapi)
    /\ HoldsPart(Val(openapi), m, part)
    /\ \A n \in 1..Len(callArgs.controllers) :
          ~IsDef(OptGet(metadata[callArgs.controllers[n].cls][RESPONSE], CLASS_METADATA))
    /\ lastOp' = "mutateOperation"
    /\ thrown' = ""
    /\ openapi' = Def(ChangedDocument(Val(openapi), m, part, FALSE))
    /\ kept' = [kept EXCEPT !.openapi =
                    IF IsDef(@) THEN Def(ChangedDocument(Val(@), m, part, TRUE)) ELSE @]
    /\ metadata' = [c \in Classes |->
                       IF \E n \in 1..Len(callArgs.controllers) : callArgs.controllers[n].cls = c
                       THEN ChangedStore(metadata[c], m, part)
                       ELSE metadata[c]]
    /\ UNCHANGED <<metadataSupport, inherits, nDefined, cur, visited, apps, attempts,
                   callArgs, info, registrarCalls>>

\* Order: class A gets paths on the class and on its methods, and
\* registerControllers runs on one instance or on two.
NextOrder ==
    \/ /\ nDefined = 0
       /\ apps < MaxApps
       /\ \E t \in RouteTargets, p \in {PathA, PathI} : path(t, p)
    \/ EndClass
    \/ \E cs \in {<<A1>>, <<A1, A2>>} : registerControllers(cs)

SpecOrder == Init /\ [][NextOrder]_vars

\* Inheritance: class B extends class A; both get paths and verbs on the
\* class and on their methods (B overrides foo and bar), and
\* registerControllers runs on an instance of either.
NextInherit ==
    \/ /\ apps < MaxStoreApps
       /\ \/ \E t \in RouteTargets, p \in {PathA, PathI} : path(t, p)
          \/ \E t \in RouteTargets, v \in MethodPool : method(t, v)
    \/ EndClass
    \/ \E cs \in {<<A1>>, <<B1>>} : registerControllers(cs)

SpecInherit == InitInherit /\ [][NextInherit]_vars

\* Both resolvers on the same controllers: class A gets paths, two of which
\* translate to the same OpenAPI path, and verbs; the caller keeps the routes.
NextMatch ==
    \/ /\ nDefined = 0
       /\ apps < MaxStoreApps
       /\ \/ \E t \in RouteTargets, p \in PathPool : path(t, p)
          \/ \E t \in RouteTargets, v \in MethodPool : method(t, v)
    \/ EndClass
    \/ \E cs \in {<<A1>>, <<A1, A2>>, <<B1, A1>>} : registerControllers(cs)
    \/ \E cs \in {<<A1>>, <<A1, A2>>, <<B1, A1>>} : getOpenAPISchema(BaseEmpty, cs, NoGen)
    \/ keepRoutes

SpecMatch == Init /\ [][NextMatch]_vars

\* A base document that has the path entry '/{i}' already, with a get
\* operation and no parameters.
BaseWithTemplate ==
    [openapi |-> "3.1.0", info |-> "info",
     paths |-> Def(<<[key |-> <<"/", "{", "i", "}">>,
                      value |-> [parameters |-> Undefined,
                                 operations |-> <<[key |-> "get", value |-> BaseOperation]>>]]>>),
     components |-> Undefined,
     owns |-> OwnedBy("base")]

\* Parameters: the methods of class A get paths that translate to the same
\* key with different constraints, and verbs; the base has the key or not.
NextParams ==
    \/ /\ nDefined = 0
       /\ apps < MaxApps
       /\ \/ \E t \in {Foo, Bar}, p \in PathPool : path(t, p)
          \/ \E t \in {Foo, Bar}, v \in MethodPool : method(t, v)
    \/ EndClass
    \/ \E b \in {BaseEmpty, BaseWithTemplate} : getOpenAPISchema(b, <<A1>>, NoGen)

SpecParams == Init /\ [][NextParams]_vars

\* Repeated calls: class A gets paths, verbs and middlewares, then the two
\* resolvers run any number of times in any order, the caller keeping results.
NextRepeat ==
    \/ /\ nDefined = 0
       /\ apps < MaxStoreApps
       /\ \/ \E t \in RouteTargets, p \in {PathA, PathI} : path(t, p)
          \/ \E t \in RouteTargets : method(t, "POST")
          \/ \E t \in RouteTargets, mws \in MiddlewarePool : middleware(t, mws)
    \/ EndClass
    \/ \E cs \in {<<A1>>, <<A1, A2>>} : registerControllers(cs)
    \/ \E cs \in {<<A1>>, <<A1, A2>>} : getOpenAPISchema(BaseEmpty, cs, NoGen)
    \/ keepRoutes
    \/ keep

SpecRepeat == Init /\ [][NextRepeat]_vars

\* Two documents: the methods of class A get a path, a request body and
\* responses; the caller keeps a document, asks for another and changes it.
AliasResponsesPool ==
    {Tuple(200, Def(ContentMap(<<[key |-> "text/html", value |-> MediaName(Widget)]>>)),
           Undefined, Def("h1")),
     Tuple(204, Undefined, Undefined, Undefined)}

NextAlias ==
    \/ /\ nDefined = 0
       /\ apps < MaxApps
       /\ \/ \E t \in {Foo, Bar} : path(t, PathA)
          \/ \E t \in {Foo, Bar}, v \in MethodPool : method(t, v)
          \/ \E t \in {Foo, Bar}, b \in {BodyByName(Widget), BodyObject(CustomBody)} :
                requestBody(t, b)
          \/ \E t \in {Foo, Bar}, r \in AliasResponsesPool : response(t, r)
    \/ EndClass
    \/ getOpenAPISchema(BaseEmpty, <<A1>>, NoGen)
    \/ keep
    \/ \E m \in MethodNames, part \in OperationParts : mutateOperation(m, part)

SpecAlias == Init /\ [][NextAlias]_vars

(***************************************************************************)
(* What was applied, read from the record of the decorator calls.          *)
(***************************************************************************)
RECURSIVE SumSeq(_)
SumSeq(ns) == IF ns = <<>> THEN 0 ELSE Head(ns) + SumSeq(Tail(ns))

Range(q) == {q[i] : i \in 1..Len(q)}
Occurrences(q, x) == Cardinality({i \in 1..Len(q) : q[i] = x})

AppliedClassPaths(c) == attempts[c][PATH][CLASS_METADATA]
AppliedMethodPaths(c, m) == attempts[c][PATH][m]
\* the number of (class path, method path) pairs of method m of class c
PairCount(c, m) == Len(AppliedClassPaths(c)) * Len(AppliedMethodPaths(c, m))
\* ... and of those that concatenate to p
PairsGiving(c, m, p) ==
    Cardinality({ij \in (1..Len(AppliedClassPaths(c))) \X (1..Len(AppliedMethodPaths(c, m))) :
                    AppliedClassPaths(c)[ij[1]] \o AppliedMethodPaths(c, m)[ij[2]] = p})
MethodSeq == <<"foo", "bar">>
TripleCount(c) == SumSeq([k \in 1..Len(MethodSeq) |-> PairCount(c, MethodSeq[k])])

\* The verb the claim gives the site (c, m).
AppliedVerb(c, m) ==
    IF attempts[c][METHOD][m] # <<>> THEN attempts[c][METHOD][m][1]
    ELSE IF attempts[c][METHOD][CLASS_METADATA] # <<>> THEN attempts[c][METHOD][CLASS_METADATA][1]
    ELSE "GET"

Registered_ == lastOp = "registerControllers"
Synthesized == lastOp = "getOpenAPISchema"
Controllers == callArgs.controllers

(***************************************************************************)
(* C1: for controllers whose class has at least one class-level path,      *)
(* registerControllers returns, and returns exactly one route per (method  *)
(* with paths, class path, method path), its path the class path followed  *)
(* directly by the method path; so the number of routes of a controller is *)
(* (class paths) x (method paths), summed over its methods.                *)
(***************************************************************************)
C1_OneRoutePerTriple ==
    (/\ Registered_
     /\ metadataSupport
     /\ \A n \in 1..Len(Controllers) : Len(AppliedClassPaths(Controllers[n].cls)) >= 1)
    => /\ thrown = ""
       /\ IsDef(info)
       /\ Len(Val(info)) = SumSeq([n \in 1..Len(Controllers) |-> TripleCount(Controllers[n].cls)])
       /\ \A x \in Range(Controllers), m \in MethodNames :
            \A p \in {Val(info)[k].path : k \in 1..Len(Val(info))}
                     \cup {cp \o mp : cp \in Range(AppliedClassPaths(x.cls)),
                                      mp \in Range(AppliedMethodPaths(x.cls, m))} :
                Cardinality({k \in 1..Len(Val(info)) :
                                /\ Val(info)[k].handler = [name |-> m, this |-> x]
                                /\ Val(info)[k].path = p})
                = Occurrences(Controllers, x) * PairsGiving(x.cls, m, p)

\* Two class paths and a method with two paths: four routes for one controller.
C1_Witness ==
    /\ Registered_
    /\ thrown = ""
    /\ Controllers = <<A1>>
    /\ Len(AppliedClassPaths("A")) = 2
    /\ AppliedClassPaths("A")[1] # AppliedClassPaths("A")[2]
    /\ \E m \in MethodNames : /\ Len(AppliedMethodPaths("A", m)) = 2
                              /\ AppliedMethodPaths("A", m)[1] # AppliedMethodPaths("A", m)[2]
    /\ Len(Val(info)) = 4

PathBearing(c) == {m \in MethodNames : Len(AppliedMethodPaths(c, m)) >= 1}
TotalMethodPaths(c) == SumSeq([k \in 1..Len(MethodSeq) |-> Len(AppliedMethodPaths(c, MethodSeq[k]))])

\* C1 as stated: the count is the product (class paths) x (method paths) x
\* (path-bearing methods), with (method paths) read either as the paths of all
\* methods together or as the paths of any one path-bearing method.
C1_ProductCount ==
    (/\ Registered_
     /\ metadataSupport
     /\ Len(Controllers) = 1
     /\ Len(AppliedClassPaths(Controllers[1].cls)) >= 1
     /\ PathBearing(Controllers[1].cls) # {})
    => /\ IsDef(info)
       /\ \/ Len(Val(info)) = Len(AppliedClassPaths(Controllers[1].cls))
                              * TotalMethodPaths(Controllers[1].cls)
                              * Cardinality(PathBearing(Controllers[1].cls))
          \/ \A m \in PathBearing(Controllers[1].cls) :
                Len(Val(info)) = Len(AppliedClassPaths(Controllers[1].cls))
                                 * Len(AppliedMethodPaths(Controllers[1].cls, m))
                                 * Cardinality(PathBearing(Controllers[1].cls))

(***************************************************************************)
(* C2: every route's method is the method-level @method value of its site, *)
(* else the class-level one, else GET, and the registrar is called with    *)
(* its lower-cased form; every operation of a returned document sits under *)
(* the lower-cased form of that same method of its site, and every         *)
(* path-bearing site has an operation.                                     *)
(***************************************************************************)
LowerCased(v) == CASE v = "GET" -> "get" [] v = "POST" -> "post" [] v = "PUT" -> "put"

\* the operations of the returned document, as <<verb, operation>> pairs
DocumentOperations ==
    UNION {{<<Val(Val(openapi).paths)[i].value.operations[j].key,
              Val(Val(openapi).paths)[i].value.operations[j].value>> :
                j \in 1..Len(Val(Val(openapi).paths)[i].value.operations)} :
           i \in 1..Len(Val(Val(openapi).paths))}

C2_EffectiveMethod ==
    /\ (Registered_ /\ thrown = "") =>
          \A k \in 1..Len(Val(info)) :
             /\ Val(info)[k].method
                  = AppliedVerb(Val(info)[k].handler.this.cls, Val(info)[k].handler.name)
             /\ registrarCalls[k].verb
                  = LowerCased(AppliedVerb(Val(info)[k].handler.this.cls, Val(info)[k].handler.name))
    /\ (Synthesized /\ thrown = "") =>
          /\ \A vo \in DocumentOperations :
                \E x \in Range(Controllers) :
                    vo[1] = LowerCased(AppliedVerb(x.cls, Val(vo[2].operationId)))
          /\ \A x \in Range(Controllers) : \A m \in PathBearing(x.cls) :
                \E vo \in DocumentOperations : vo[2].operationId = Def(m)

\* A document with a site that takes its own verb over a different class-level
\* one, and a site that takes the class-level verb.
C2_Witness ==
    /\ Synthesized
    /\ thrown = ""
    /\ attempts["A"][METHOD][CLASS_METADATA] # <<>>
    /\ \E m \in PathBearing("A") :
          /\ attempts["A"][METHOD][m] # <<>>
          /\ attempts["A"][METHOD][m][1] # attempts["A"][METHOD][CLASS_METADATA][1]
    /\ \E m \in PathBearing("A") : attempts["A"][METHOD][m] = <<>>
    /\ Cardinality(DocumentOperations) = 2

(***************************************************************************)
(* C3: a route's middleware chain is the class-level middlewares in        *)
(* application order followed by its handler's method-level middlewares in *)
(* application order, and the registrar receives the path, that chain and  *)
(* the handler, in this order.                                             *)
(***************************************************************************)
AppliedChain(c, m) ==
    attempts[c][MIDDLEWARE][CLASS_METADATA] \o attempts[c][MIDDLEWARE][m]

C3_MiddlewareChain ==
    (Registered_ /\ thrown = "") =>
        \A k \in 1..Len(Val(info)) :
           /\ Val(info)[k].middlewares
                = AppliedChain(Val(info)[k].handler.this.cls, Val(info)[k].handler.name)
           /\ Len(registrarCalls[k].args) = Len(Val(info)[k].middlewares) + 2
           /\ Head(registrarCalls[k].args) = Val(info)[k].path
           /\ SubSeq(registrarCalls[k].args, 2, Len(registrarCalls[k].args) - 1)
                = AppliedChain(Val(info)[k].handler.this.cls, Val(info)[k].handler.name)
           /\ registrarCalls[k].args[Len(registrarCalls[k].args)] = Val(info)[k].handler

\* A route with class-level and method-level middlewares in a chain of three,
\* while the other method has middlewares of its own.
C3_Witness ==
    /\ Registered_
    /\ thrown = ""
    /\ \E k \in 1..Len(Val(info)) :
          /\ Len(Val(info)[k].middlewares) >= 3
          /\ attempts["A"][MIDDLEWARE][CLASS_METADATA] # <<>>
          /\ attempts["A"][MIDDLEWARE][Val(info)[k].handler.name] # <<>>
          /\ \E m \in MethodNames \ {Val(info)[k].handler.name} :
                attempts["A"][MIDDLEWARE][m] # <<>>

(***************************************************************************)
(* C4: when two combinations (instance, method, class path, method path)   *)
(* give the same translated path and the same effective method,            *)
(* getOpenAPISchema throws DuplicatePathMethod and returns no document,    *)
(* while registerControllers throws nothing and returns and registers one  *)
(* route for each combination.                                             *)
(***************************************************************************)
ClassPathsOrEmpty(c) == IF AppliedClassPaths(c) = <<>> THEN << <<>> >> ELSE AppliedClassPaths(c)

\* <<n, m, i, j>>: instance n, method m, its class path i and method path j
Combinations ==
    {q \in (1..Len(Controllers)) \X MethodNames \X (1..MaxApps + 1) \X (1..MaxApps + 1) :
        /\ q[3] <= Len(ClassPathsOrEmpty(Controllers[q[1]].cls))
        /\ q[4] <= Len(AppliedMethodPaths(Controllers[q[1]].cls, q[2]))}
RawPath(q) ==
    ClassPathsOrEmpty(Controllers[q[1]].cls)[q[3]] \o AppliedMethodPaths(Controllers[q[1]].cls, q[2])[q[4]]
SameOperation(q1, q2) ==
    /\ OaPath(RawPath(q1)) = OaPath(RawPath(q2))
    /\ AppliedVerb(Controllers[q1[1]].cls, q1[2]) = AppliedVerb(Controllers[q2[1]].cls, q2[2])
Clash == \E q1, q2 \in Combinations : q1 # q2 /\ SameOperation(q1, q2)

C4_DuplicatePathMethod ==
    /\ (Synthesized /\ Clash) =>
          /\ thrown = "DuplicatePathMethod"
          /\ openapi = Undefined
    /\ (Registered_ /\ Clash) =>
          /\ thrown = ""
          /\ Len(Val(info)) = Cardinality(Combinations)
          /\ Len(registrarCalls) = Cardinality(Combinations)
          /\ \A q \in Combinations :
                \E k \in 1..Len(Val(info)) :
                   /\ Val(info)[k].handler = [name |-> q[2], this |-> Controllers[q[1]]]
                   /\ Val(info)[k].path = RawPath(q)
                   /\ registrarCalls[k].args[1] = RawPath(q)

\* One controller, two different raw paths that translate to the same path
\* under the same method: the synthesis has failed.
C4_Witness ==
    /\ Synthesized
    /\ thrown = "DuplicatePathMethod"
    /\ Controllers = <<A1>>
    /\ \E q1, q2 \in Combinations :
          /\ RawPath(q1) # RawPath(q2)
          /\ SameOperation(q1, q2)

(***************************************************************************)
(* C5: a single-valued decorator that reaches a site which already holds a *)
(* value of its kind throws DuplicateAnnotation and leaves the value the   *)
(* site holds (the first one applied) as it is; on a site that holds none  *)
(* it stores its value without throwing, whatever the other sites of the   *)
(* class hold; and DuplicateAnnotation is thrown in no other case.         *)
(***************************************************************************)
Sites == Classes \X Kinds \X SiteKeys
\* The value the store holds for site x, as an optional.
Stored(md, x) == OptGet(md[x[1]][x[2]], x[3])
Applied(x) == attempts[x[1]][x[2]][x[3]]
\* The sites the step applied a decorator to (past its two guards).
AppliedNow == {x \in Sites : attempts'[x[1]][x[2]][x[3]] # attempts[x[1]][x[2]][x[3]]}

C5_Step ==
    /\ \A x \in AppliedNow :
          x[2] \in SingleKinds =>
             IF Applied(x) # <<>>
             THEN /\ thrown' = "DuplicateAnnotation"
                  /\ Stored(metadata', x) = Stored(metadata, x)
                  /\ Stored(metadata', x) = Def(Applied(x)[1])
             ELSE /\ thrown' = ""
                  /\ ~IsDef(Stored(metadata, x))
                  /\ Stored(metadata', x) = Def(attempts'[x[1]][x[2]][x[3]][1])
    /\ thrown' = "DuplicateAnnotation" =>
          \E x \in AppliedNow : x[2] \in SingleKinds /\ Applied(x) # <<>>

C5_DuplicateAnnotation == [][C5_Step]_vars

\* @method on bar, then on foo, then again on foo with another verb: the last
\* one has thrown, and foo keeps its first verb.
C5_Witness ==
    /\ lastOp = "method"
    /\ thrown = "DuplicateAnnotation"
    /\ \E c \in Classes, m1, m2 \in MethodNames :
          /\ m1 # m2
          /\ Len(attempts[c][METHOD][m1]) = 1
          /\ Len(attempts[c][METHOD][m2]) = 2
          /\ attempts[c][METHOD][m2][1] # attempts[c][METHOD][m2][2]
          /\ Stored(metadata, <<c, METHOD, m2>>) = Def(attempts[c][METHOD][m2][1])

(***************************************************************************)
(* C6: for the multi-valued kinds the list a site holds is at all times    *)
(* the values applied to that site, in application order (no list while    *)
(* none was applied); and an application extends the list of its own site  *)
(* at the end and changes what no other site or kind holds.                *)
(***************************************************************************)
C6_Lists ==
    \A x \in Sites :
        x[2] \in MultiKinds =>
            Stored(metadata, x) = IF Applied(x) = <<>> THEN Undefined ELSE Def(Applied(x))

IsPrefix(q1, q2) == Len(q1) <= Len(q2) /\ SubSeq(q2, 1, Len(q1)) = q1

C6_Step ==
    \A x \in Sites :
        \/ Stored(metadata', x) = Stored(metadata, x)
        \/ /\ AppliedNow = {x}
           /\ x[1] = CurClass
           /\ x[3] = KeyOf(cur')
           /\ x[2] \in MultiKinds =>
                 IsPrefix(Coalesce(Stored(metadata, x), Def(<<>>))[1], Val(Stored(metadata', x)))

C6_AppendOnly == []C6_Lists /\ [][C6_Step]_vars

\* A site with three values from two applications, the first two distinct,
\* beside another site of the same kind and a site of another kind.
C6_Witness ==
    \E c \in Classes, k \in {MIDDLEWARE, TAG}, m \in MethodNames :
        /\ Len(attempts[c][k][m]) = 3
        /\ attempts[c][k][m][1] # attempts[c][k][m][2]
        /\ Stored(metadata, <<c, k, m>>) = Def(attempts[c][k][m])
        /\ \E x \in Sites : x # <<c, k, m>> /\ IsDef(Stored(metadata, x))

(***************************************************************************)
(* The responses of the operations of a returned document.                 *)
(***************************************************************************)
\* The operation generated for method m (no @operationId is applied in the
\* specifications of the document, so it carries the method's name).
OperationOf(m) == CHOOSE o \in {vo[2] : vo \in DocumentOperations} : o.operationId = Def(m)

\* The response tuples that reach the operation of method m of class c.
AppliedTuples(c, m) == attempts[c][RESPONSE][CLASS_METADATA] \o attempts[c][RESPONSE][m]
CodesOf(ts) == {ts[i].code : i \in 1..Len(ts)}
\* the last tuple of ts for a code
LastFor(ts, code) ==
    ts[CHOOSE i \in 1..Len(ts) : ts[i].code = code /\ \A j \in (i + 1)..Len(ts) : ts[j].code # code]
CodeKey(code) ==
    CASE code = 200 -> <<"2", "0", "0">>
      [] code = 201 -> <<"2", "0", "1">>
      [] code = 204 -> <<"2", "0", "4">>
      [] code = 404 -> <<"4", "0", "4">>
\* the entry of the operation of m under a code, as an optional
EntryFor(m, code) == MapGet(Val(OperationOf(m).responses), CodeKey(code))

\* C7 as stated: with tuples that give neither content nor description (and
\* no two combinations for one path and method) the synthesis succeeds, an entry for a code with a built-in default has that
\* default's description and content, and an entry for any other code has the
\* description "Response" and no content.
C7_DefaultsForEveryCode ==
    (Synthesized /\ metadataSupport /\ ~Clash) =>
        /\ thrown = ""
        /\ IsDef(openapi)
        /\ \A m \in PathBearing("A") : \A code \in CodesOf(AppliedTuples("A", m)) :
              /\ IsDef(EntryFor(m, code))
              /\ IF MapHas(defaultResponses, CodeKey(code))
                 THEN /\ Val(EntryFor(m, code)).description
                           = Val(MapGet(defaultResponses, CodeKey(code))).description
                      /\ Val(EntryFor(m, code)).content
                           = Val(MapGet(defaultResponses, CodeKey(code))).content
                 ELSE /\ Val(EntryFor(m, code)).description = "Response"
                      /\ Val(EntryFor(m, code)).content = Undefined

(***************************************************************************)
(* C8: the tuples of an operation are the class-level ones in order and    *)
(* then the method-level ones in order; its responses hold one entry for   *)
(* each code among them, and the entry of a code is the one its last tuple *)
(* gives by itself: that tuple's description (else the default's, else     *)
(* "Response"), its content (else the default's) and its headers (else     *)
(* none), nothing of an earlier tuple for the code being kept.             *)
(***************************************************************************)
DefaultDescription(code) ==
    IF MapHas(defaultResponses, CodeKey(code))
    THEN Val(MapGet(defaultResponses, CodeKey(code))).description
    ELSE "Response"

EntryOfTuple(t) ==
    [description |-> IF IsDef(t.description) THEN Val(t.description) ELSE DefaultDescription(t.code),
     content |-> ResponseContent(t).content,
     headers |-> t.headers]

OneEntryPerCode(m) ==
    IF AppliedTuples("A", m) = <<>> THEN OperationOf(m).responses = Undefined
    ELSE /\ IsDef(OperationOf(m).responses)
         /\ Len(Val(OperationOf(m).responses)) = Cardinality(CodesOf(AppliedTuples("A", m)))
         /\ \A code \in CodesOf(AppliedTuples("A", m)) : IsDef(EntryFor(m, code))

C8_LastTupleWins ==
    (Synthesized /\ thrown = "") =>
        \A m \in PathBearing("A") :
           /\ OneEntryPerCode(m)
           /\ \A code \in CodesOf(AppliedTuples("A", m)) :
                 Val(EntryFor(m, code)) = EntryOfTuple(LastFor(AppliedTuples("A", m), code))

\* The tuples of ts for a code that give field f.
Giving(ts, code, f) == SelectSeq(ts, LAMBDA t : t.code = code /\ IsDef(t[f]))
Last(q) == q[Len(q)]

\* C8 as stated: a field given by an earlier tuple stays in the entry unless a
\* later tuple for the same code gives that field.
C8_FieldByField ==
    (Synthesized /\ thrown = "") =>
        \A m \in PathBearing("A") :
           /\ OneEntryPerCode(m)
           /\ \A code \in CodesOf(AppliedTuples("A", m)) :
                 /\ Giving(AppliedTuples("A", m), code, "description") # <<>> =>
                       Val(EntryFor(m, code)).description
                         = Val(Last(Giving(AppliedTuples("A", m), code, "description")).description)
                 /\ Giving(AppliedTuples("A", m), code, "content") # <<>> =>
                       Val(EntryFor(m, code)).content
                         = ResponseContent(Last(Giving(AppliedTuples("A", m), code, "content"))).content
                 /\ Giving(AppliedTuples("A", m), code, "headers") # <<>> =>
                       Val(EntryFor(m, code)).headers
                         = Last(Giving(AppliedTuples("A", m), code, "headers")).headers

\* An operation with a class-level tuple that gives content, description and
\* headers for a code and a later method-level tuple for that code that gives
\* none of the three.
C8_Witness ==
    /\ Synthesized
    /\ thrown = ""
    /\ "foo" \in PathBearing("A")
    /\ \E i \in 1..Len(attempts["A"][RESPONSE][CLASS_METADATA]) :
          /\ IsDef(attempts["A"][RESPONSE][CLASS_METADATA][i].content)
          /\ IsDef(attempts["A"][RESPONSE][CLASS_METADATA][i].description)
          /\ IsDef(attempts["A"][RESPONSE][CLASS_METADATA][i].headers)
          /\ \E j \in 1..Len(attempts["A"][RESPONSE]["foo"]) :
                /\ attempts["A"][RESPONSE]["foo"][j].code
                     = attempts["A"][RESPONSE][CLASS_METADATA][i].code
                /\ ~IsDef(attempts["A"][RESPONSE]["foo"][j].headers)
                /\ Val(EntryFor("foo", attempts["A"][RESPONSE]["foo"][j].code)).headers = Undefined

(***************************************************************************)
(* C9: a method with paths and no @response of its own, in a class whose   *)
(* only response is @response(200, 'Widget'), gets exactly one response,   *)
(* keyed 200, with content application/json and the schema                 *)
(* $ref #/components/schemas/Widget; and wherever the content of an entry  *)
(* comes from a schema name N, alone or under a media type, the schema is  *)
(* a $ref to #/components/schemas/N, or for N ending in "[]" an array      *)
(* whose items are a $ref to #/components/schemas/<N without the "[]">.    *)
(***************************************************************************)
WidgetRef ==
    <<"#", "/", "c", "o", "m", "p", "o", "n", "e", "n", "t", "s", "/",
      "s", "c", "h", "e", "m", "a", "s", "/", "W", "i", "d", "g", "e", "t">>

\* The schema that C9 gives the schema name n.
SchemaByName(n) ==
    IF n = Widget
    THEN [type |-> "", ref |-> Def(WidgetRef), itemsRef |-> Undefined, example |-> Undefined]
    ELSE IF n = WidgetList
    THEN [type |-> "array", ref |-> Undefined, itemsRef |-> Def(WidgetRef), example |-> Undefined]
    ELSE NoSchema

\* The content object that C9 gives the content argument c of a tuple.
ContentByC9(c) ==
    IF c.isString
    THEN <<[key |-> "application/json",
            value |-> [isString |-> FALSE, name |-> <<>>, schema |-> SchemaByName(c.name)]]>>
    ELSE [i \in 1..Len(c.map) |->
             IF c.map[i].value.isString
             THEN [key |-> c.map[i].key,
                   value |-> [isString |-> FALSE, name |-> <<>>,
                              schema |-> SchemaByName(c.map[i].value.name)]]
             ELSE c.map[i]]

C9_SchemaNames ==
    (Synthesized /\ metadataSupport /\ ~Clash) =>
        /\ thrown = ""
        /\ \A m \in PathBearing("A") :
              /\ (/\ attempts["A"][RESPONSE][m] = <<>>
                  /\ attempts["A"][RESPONSE][CLASS_METADATA]
                       = <<Tuple(200, Def(ContentByName(Widget)), Undefined, Undefined)>>)
                 => /\ IsDef(OperationOf(m).responses)
                    /\ Len(Val(OperationOf(m).responses)) = 1
                    /\ Val(OperationOf(m).responses)[1].key = <<"2", "0", "0">>
                    /\ Val(OperationOf(m).responses)[1].value.content
                         = Def(<<[key |-> "application/json",
                                  value |-> [isString |-> FALSE, name |-> <<>>,
                                             schema |-> [type |-> "", ref |-> Def(WidgetRef),
                                                         itemsRef |-> Undefined,
                                                         example |-> Undefined]]]>>)
              /\ \A code \in CodesOf(AppliedTuples("A", m)) :
                    IsDef(LastFor(AppliedTuples("A", m), code).content) =>
                        /\ IsDef(EntryFor(m, code))
                        /\ Val(EntryFor(m, code)).content
                             = Def(ContentByC9(Val(LastFor(AppliedTuples("A", m), code).content)))

\* The scenario of the claim, and beside it a method whose own tuple names an
\* array.
C9_Witness ==
    /\ Synthesized
    /\ thrown = ""
    /\ PathBearing("A") = {"foo", "bar"}
    /\ attempts["A"][RESPONSE]["bar"] = <<>>
    /\ attempts["A"][RESPONSE][CLASS_METADATA]
         = <<Tuple(200, Def(ContentByName(Widget)), Undefined, Undefined)>>
    /\ attempts["A"][RESPONSE]["foo"]
         = <<Tuple(200, Def(ContentByName(WidgetList)), Undefined, Undefined)>>
    /\ Len(Val(OperationOf("bar").responses)) = 1

(***************************************************************************)
(* C10: the request body of an operation comes from the method-level       *)
(* @requestBody value, else from the class-level one, else there is none;  *)
(* a schema name gives a required application/json body with the schema of *)
(* that name, an object is the request body as it is.                      *)
(***************************************************************************)
AppliedBody(c, m) ==
    IF attempts[c][REQUEST_BODY][m] # <<>> THEN Def(attempts[c][REQUEST_BODY][m][1])
    ELSE IF attempts[c][REQUEST_BODY][CLASS_METADATA] # <<>>
    THEN Def(attempts[c][REQUEST_BODY][CLASS_METADATA][1])
    ELSE Undefined

BodyByC10(b) ==
    IF b.isString
    THEN [content |-> <<[key |-> "application/json",
                         value |-> [isString |-> FALSE, name |-> <<>>,
                                    schema |-> SchemaByName(b.name)]]>>,
          required |-> Def(TRUE)]
    ELSE b.object

C10_RequestBody ==
    (Synthesized /\ metadataSupport /\ ~Clash) =>
        /\ thrown = ""
        /\ \A m \in PathBearing("A") :
              OperationOf(m).requestBody
                = IF IsDef(AppliedBody("A", m)) THEN Def(BodyByC10(Val(AppliedBody("A", m))))
                  ELSE Undefined

\* One operation with the body of an array name, one with an object, after
\* @requestBody was also tried on the class.
C10_Witness ==
    /\ Synthesized
    /\ thrown = ""
    /\ PathBearing("A") = {"foo", "bar"}
    /\ \E m1, m2 \in MethodNames :
          /\ AppliedBody("A", m1) = Def(BodyByName(WidgetList))
          /\ AppliedBody("A", m2) = Def(BodyObject(CustomBody))
          /\ OperationOf(m1).requestBody # OperationOf(m2).requestBody
          /\ Val(OperationOf(m1).requestBody).required = Def(TRUE)

(***************************************************************************)
(* Path translation as C11 states it.                                      *)
(***************************************************************************)
\* the position after the identifier that starts at position i
IdentEnd(p, i) ==
    CHOOSE j \in i..(Len(p) + 1) :
        /\ \A q \in i..(j - 1) : p[q] \in WordChar
        /\ j = Len(p) + 1 \/ p[j] \notin WordChar

\* the first ")" after the "(" at position j that no backslash precedes, 0 if none
UnescapedClose(p, j) ==
    IF \E k \in (j + 1)..Len(p) : p[k] = ")" /\ (k = j + 1 \/ p[k - 1] # Backslash)
    THEN CHOOSE k \in (j + 1)..Len(p) :
            /\ p[k] = ")" /\ (k = j + 1 \/ p[k - 1] # Backslash)
            /\ \A q \in (j + 1)..(k - 1) : ~(p[q] = ")" /\ (q = j + 1 \/ p[q - 1] # Backslash))
    ELSE 0

\* the constraint of the parameter whose identifier ends before position j: the
\* position of its closing parenthesis, 0 if it has none
ConstraintClose(p, j) == IF j <= Len(p) /\ p[j] = "(" THEN UnescapedClose(p, j) ELSE 0

StartsParameter(p, i) == p[i] = ":" /\ IdentEnd(p, i + 1) > i + 1

\* The parameter occurrences from position i on, left to right:
\* [name, pattern, empty], empty telling a constraint "()".
RECURSIVE Occurrences11(_, _)
Occurrences11(p, i) ==
    IF i > Len(p) THEN <<>>
    ELSE IF ~StartsParameter(p, i) THEN Occurrences11(p, i + 1)
    ELSE IF ConstraintClose(p, IdentEnd(p, i + 1)) = 0
    THEN <<[name |-> SubSeq(p, i + 1, IdentEnd(p, i + 1) - 1), pattern |-> Undefined,
            empty |-> FALSE]>>
         \o Occurrences11(p, IdentEnd(p, i + 1))
    ELSE <<[name |-> SubSeq(p, i + 1, IdentEnd(p, i + 1) - 1),
            pattern |-> Def(SubSeq(p, IdentEnd(p, i + 1) + 1,
                                   ConstraintClose(p, IdentEnd(p, i + 1)) - 1)),
            empty |-> ConstraintClose(p, IdentEnd(p, i + 1)) = IdentEnd(p, i + 1) + 1]>>
         \o Occurrences11(p, ConstraintClose(p, IdentEnd(p, i + 1)) + 1)

\* The translated path from position i on.
RECURSIVE Translated11(_, _)
Translated11(p, i) ==
    IF i > Len(p) THEN <<>>
    ELSE IF ~StartsParameter(p, i) THEN <<p[i]>> \o Translated11(p, i + 1)
    ELSE <<"{">> \o SubSeq(p, i + 1, IdentEnd(p, i + 1) - 1) \o <<"}">>
         \o Translated11(p, IF ConstraintClose(p, IdentEnd(p, i + 1)) = 0
                            THEN IdentEnd(p, i + 1)
                            ELSE ConstraintClose(p, IdentEnd(p, i + 1)) + 1)

IsEnumeration(pattern) == \A i \in 1..Len(pattern) : pattern[i] \in WordChar \cup {"|"}

Descriptor11(o) ==
    [name |-> o.name, in |-> "path", required |-> TRUE,
     schema |-> IF ~IsDef(o.pattern)
                THEN [type |-> "string", enum |-> Undefined, pattern |-> Undefined]
                ELSE IF IsEnumeration(Val(o.pattern))
                THEN [type |-> "string", enum |-> Def(SplitPipe(Val(o.pattern), <<>>)),
                      pattern |-> Undefined]
                ELSE [type |-> "string", enum |-> Undefined, pattern |-> o.pattern]]

Descriptors11(p) == [n \in 1..Len(Occurrences11(p, 1)) |-> Descriptor11(Occurrences11(p, 1)[n])]

\* the claim says nothing of a constraint "()"
Covered11(p) == \A n \in 1..Len(Occurrences11(p, 1)) : ~Occurrences11(p, 1)[n].empty

\* The one path of the one method of the specification of the translation.
ThePath == attempts["A"][PATH]["foo"][1]
ThePathItem == Val(Val(openapi).paths)[1]

\* C11 as stated: the path entry of the document is keyed by the path with
\* every ':' + identifier and its constraint (up to the first unescaped ')')
\* replaced by '{identifier}', and its parameters are the descriptors of the
\* occurrences in order (no list when there is none).
C11_Translation ==
    (/\ Synthesized
     /\ thrown = ""
     /\ Len(attempts["A"][PATH]["foo"]) = 1
     /\ Covered11(ThePath))
    => /\ Len(Val(Val(openapi).paths)) = 1
       /\ ThePathItem.key = Translated11(ThePath, 1)
       /\ ThePathItem.value.parameters
            = IF Descriptors11(ThePath) = <<>> THEN Undefined ELSE Def(Descriptors11(ThePath))
(***************************************************************************)
(* C12.  The base document.                                                *)
(***************************************************************************)
\* The operations of the base document, as <<path key, verb, operation>>.
EntriesOf(doc) ==
    IF ~IsDef(doc.paths) THEN {}
    ELSE UNION {{<<Val(doc.paths)[i].key, o.key, o.value>> :
                   o \in Range(Val(doc.paths)[i].value.operations)} :
                i \in 1..Len(Val(doc.paths))}

\* The path keys of a document.
PathKeys(doc) == IF IsDef(doc.paths) THEN Range(MapKeys(Val(doc.paths))) ELSE {}

AfterSynthesis == lastOp \in {"getOpenAPISchema", "mutate"} /\ IsDef(callArgs.passed)

ClassPathsOrEmptyString(c) ==
    IF AppliedClassPaths(c) = <<>> THEN << <<>> >> ELSE AppliedClassPaths(c)

\* The paths of the routes of method m of instance x, in the order of info.
RoutePathsOf(x, m) ==
    LET OfSite(r) == r.handler = [name |-> m, this |-> x]
        records == SelectSeq(Val(info), OfSite)
    IN  [k \in 1..Len(records) |-> records[k].path]

\* The operations of site m in the document, as <<path key, verb>>.
OperationsOf(m) ==
    {<<e[1], e[2]>> : e \in {e \in EntriesOf(Val(openapi)) : e[3].operationId = Def(m)}}

\* C13: a method gives routes and operations exactly when a path was applied
\* to it, whatever else was applied to it or to its class: an instance of a
\* class without any path gives nothing and no error, a class with class-level
\* paths only gives nothing, and a class without class-level paths is resolved
\* as with the one class path "" (the route paths of a method of an instance
\* are then the method's paths, once per occurrence of the instance).
C13_PathBearingSites ==
    /\ (Registered_ /\ metadataSupport) =>
          /\ thrown = ""
          /\ \A x \in Range(Controllers), m \in MethodNames :
                /\ RoutePathsOf(x, m) # <<>> <=> AppliedMethodPaths(x.cls, m) # <<>>
                /\ Len(RoutePathsOf(x, m))
                     = Occurrences(Controllers, x) * Len(ClassPathsOrEmptyString(x.cls))
                       * Len(AppliedMethodPaths(x.cls, m))
                /\ (AppliedClassPaths(x.cls) = <<>> /\ Occurrences(Controllers, x) = 1) =>
                      RoutePathsOf(x, m) = AppliedMethodPaths(x.cls, m)
    /\ (Synthesized /\ metadataSupport) =>
          /\ thrown \in {"", "DuplicatePathMethod"}
          /\ thrown = "" =>
                \A m \in MethodNames :
                   /\ OperationsOf(m) # {}
                        <=> \E x \in Range(Controllers) : AppliedMethodPaths(x.cls, m) # <<>>
                   /\ \A x \in Range(Controllers) :
                         AppliedClassPaths(x.cls) = <<>> =>
                            \A k \in 1..Len(AppliedMethodPaths(x.cls, m)) :
                               \E e \in OperationsOf(m) :
                                  e[1] = OaPath(AppliedMethodPaths(x.cls, m)[k])

\* An instance of class B, which has annotations but no path, next to one of
\* class A, which has a method with a path, a method with a verb but no path,
\* and no class-level path: one route, that of the method with the path.
C13_Witness ==
    /\ Registered_
    /\ thrown = ""
    /\ Controllers = <<B1, A1>>
    /\ \E k \in Kinds : \E key \in SiteKeys : attempts["B"][k][key] # <<>>
    /\ AppliedClassPaths("A") = <<>>
    /\ AppliedMethodPaths("A", "foo") = <<PathI>>
    /\ AppliedMethodPaths("A", "bar") = <<>>
    /\ attempts["A"][METHOD]["bar"] # <<>>
    /\ Len(Val(info)) = 1
    /\ Val(info)[1].path = PathI

(***************************************************************************)
(* C14.  The order of the routes.                                          *)
(***************************************************************************)
\* The sites of class c that hold paths, in the order the store lists them.
PathSites(md, c) == IF IsDef(md[c][PATH]) THEN MapKeys(Val(md[c][PATH])) ELSE <<>>

\* The sites that got their first path in this step.
FirstPathNow(c) ==
    {k \in SiteKeys : <<c, PATH, k>> \in AppliedNow /\ Applied(<<c, PATH, k>>) = <<>>}

\* The store lists the sites in the order of their first path.
C14_Step ==
    \A c \in Classes :
        \/ FirstPathNow(c) = {} /\ PathSites(metadata', c) = PathSites(metadata, c)
        \/ \E k \in FirstPathNow(c) :
              /\ FirstPathNow(c) = {k}
              /\ PathSites(metadata', c) = Append(PathSites(metadata, c), k)

IsMethodSite(k) == k # CLASS_METADATA

\* The routes the claim gives instance x, as <<site, path>>.
OrderedRoutesOf(x) ==
    LET sites == SelectSeq(PathSites(metadata, x.cls), IsMethodSite)
        classPaths == ClassPathsOrEmptyString(x.cls)
    IN  Flatten([h \in 1..Len(sites) |->
            Flatten([i \in 1..Len(classPaths) |->
                [j \in 1..Len(AppliedMethodPaths(x.cls, sites[h])) |->
                    [handler |-> [name |-> sites[h], this |-> x],
                     path |-> classPaths[i] \o AppliedMethodPaths(x.cls, sites[h])[j]]]])])

OrderedRoutes == Flatten([n \in 1..Len(Controllers) |-> OrderedRoutesOf(Controllers[n])])

C14_Routes ==
    (Registered_ /\ metadataSupport) =>
        /\ [k \in 1..Len(Val(info)) |->
              [handler |-> Val(info)[k].handler, path |-> Val(info)[k].path]] = OrderedRoutes
        /\ Len(registrarCalls) = Len(Val(info))
        /\ \A k \in 1..Len(Val(info)) :
              /\ registrarCalls[k].verb = LowerCased(Val(info)[k].method)
              /\ registrarCalls[k].args
                   = <<Val(info)[k].path>> \o Val(info)[k].middlewares \o <<Val(info)[k].handler>>

\* C14: the store lists the sites of a class in the order of their first
\* path; the list registerControllers returns goes by instance in input order,
\* then by site in that order, then by class path in application order, then
\* by method path in application order; and the registrar calls of the pass
\* are the records of the list, one call per record in the same order, under
\* the record's method in lower case.
C14_RouteOrder == []C14_Routes /\ [][C14_Step]_vars

\* Two instances of a class with two class paths, bar having got its path
\* before foo: four routes per instance, bar's two before foo's two.
C14_Witness ==
    /\ Registered_
    /\ thrown = ""
    /\ Controllers = <<A1, A2>>
    /\ PathSites(metadata, "A") = <<"bar", "foo", CLASS_METADATA>>
    /\ Len(AppliedClassPaths("A")) = 2
    /\ AppliedClassPaths("A")[1] # AppliedClassPaths("A")[2]
    /\ Len(Val(info)) = 8
    /\ Val(info)[1].handler = [name |-> "bar", this |-> A1]
    /\ Val(info)[2].path = AppliedClassPaths("A")[2] \o AppliedMethodPaths("A", "bar")[1]
    /\ Val(info)[3].handler = [name |-> "foo", this |-> A1]
    /\ Val(info)[5].handler = [name |-> "bar", this |-> A2]
    /\ Len(registrarCalls) = 8

(***************************************************************************)
(* C15.  A pass of registerControllers that fails part-way.                *)
(***************************************************************************)
\* The records, in resolution order, that cannot be registered: the handler
\* is not a function, or the registrar throws on the path.
FailingRecords ==
    {k \in 1..Len(OrderedRoutes) :
        \/ OrderedRoutes[k].handler = [name |-> "bar", this |-> A3]
        \/ \E i \in 1..Len(OrderedRoutes[k].path) :
              OrderedRoutes[k].path[i] \in Val(callArgs.registrar).rejects}

\* Call n on the registrar was the registration of record n.
RegisteredRecord(n) ==
    /\ Head(registrarCalls[n].args) = OrderedRoutes[n].path
    /\ registrarCalls[n].args[Len(registrarCalls[n].args)] = OrderedRoutes[n].handler

\* C15: when a record cannot be registered, registerControllers throws and
\* returns no list; the registrar has by then received the records before
\* the first such record, once each and in order, and none of the later ones;
\* when every record can be registered, the pass registers them all.
C15_PartialRegistration ==
    (Registered_ /\ metadataSupport) =>
        /\ \A n \in 1..Len(registrarCalls) : RegisteredRecord(n)
        /\ IF FailingRecords = {}
           THEN thrown = "" /\ Len(registrarCalls) = Len(OrderedRoutes)
           ELSE /\ thrown \in {"TypeError", "RegistrarError"}
                /\ ~IsDef(info)
                /\ Len(registrarCalls) + 1 \in FailingRecords
                /\ \A k \in FailingRecords : Len(registrarCalls) < k

\* Binding bar of the second instance threw at the seventh of eight records:
\* the four records of the first instance and the two of foo of the second
\* are registered, the last record is not.
C15_Witness ==
    /\ Registered_
    /\ thrown = "TypeError"
    /\ Controllers = <<A1, A3>>
    /\ ~IsDef(info)
    /\ Len(OrderedRoutes) = 8
    /\ Len(registrarCalls) = 6
    /\ registrarCalls[4].args[2].this = A1
    /\ registrarCalls[6].args[2] = [name |-> "foo", this |-> A3]

(***************************************************************************)
(* C16.  Documents of two calls.                                           *)
(***************************************************************************)
\* C16: a document returned by getOpenAPISchema shares no object with the
\* store or with a document returned by another call: whatever part of it the
\* caller changes (the request body of an operation, the content or the
\* headers of its responses), the store and the document kept from an earlier
\* call stay as they were.
C16_Step == lastOp' = "mutateOperation" => (metadata' = metadata /\ kept' = kept)

C16_IndependentDocuments == [][C16_Step]_vars

(***************************************************************************)
(* C17.  Repeated calls of the resolvers.                                  *)
(***************************************************************************)
\* A route list without its handlers.
RouteList(routes) ==
    [k \in 1..Len(routes) |->
        [method |-> routes[k].method, path |-> routes[k].path,
         middlewares |-> routes[k].middlewares]]

C17_Step ==
    lastOp' \in {"registerControllers", "getOpenAPISchema"} => metadata' = metadata

C17_SameResults ==
    /\ (Registered_ /\ thrown = "" /\ IsDef(kept.info) /\ kept.of.info = Controllers) =>
          RouteList(Val(info)) = RouteList(Val(kept.info))
    /\ (Synthesized /\ IsDef(kept.openapi) /\ kept.of.openapi = Controllers) =>
          openapi = kept.openapi

C18_Step ==
    \A x \in Sites :
        (AppliedNow # {} /\ x[1] # CurClass) => Stored(metadata', x) = Stored(metadata, x)

\* The routes of an instance are those of the paths applied to its own class.
C18_OwnRoutes ==
    (Registered_ /\ metadataSupport /\ thrown = "") =>
        \A x \in Range(Controllers), m \in MethodNames :
            Len(RoutePathsOf(x, m))
              = Occurrences(Controllers, x) * Len(ClassPathsOrEmptyString(x.cls))
                * Len(AppliedMethodPaths(x.cls, m))

\* C18: the store is per class, also for a class that extends another:
\* applying decorators while one class is defined changes no value stored for
\* another class, and the routes resolved for an instance are those of the
\* decorators applied to its own class.
C18_PerClassStore == []C18_OwnRoutes /\ [][C18_Step]_vars

(***************************************************************************)
(* C19.  A parameter name that occurs more than once in a path.            *)
(***************************************************************************)
\* The descriptor of the last occurrence of the name of occurrence n.
LastDescriptor(ds, n) ==
    ds[CHOOSE k \in 1..Len(ds) :
          /\ ds[k].name = ds[n].name
          /\ \A j \in (k + 1)..Len(ds) : ds[j].name # ds[n].name]

\* C19 as stated: the parameter list of a path entry holds one descriptor for
\* each parameter name of the path, that of the last occurrence of the name.
\* (Paths without a backslash: the escaped parenthesis is the subject of C11.)
C19_LastDescriptorWins ==
    (/\ Synthesized
     /\ thrown = ""
     /\ Len(attempts["A"][PATH]["foo"]) = 1
     /\ Covered11(ThePath)
     /\ \A i \in 1..Len(ThePath) : ThePath[i] # Backslash
     /\ Descriptors11(ThePath) # <<>>)
    => /\ IsDef(ThePathItem.value.parameters)
       /\ \A n \in 1..Len(Descriptors11(ThePath)) :
             /\ Cardinality({k \in 1..Len(Val(ThePathItem.value.parameters)) :
                               Val(ThePathItem.value.parameters)[k].name
                                 = Descriptors11(ThePath)[n].name}) = 1
             /\ \E k \in 1..Len(Val(ThePathItem.value.parameters)) :
                   Val(ThePathItem.value.parameters)[k]
                     = LastDescriptor(Descriptors11(ThePath), n)

(***************************************************************************)
(* C20.  Operations and routes.                                            *)
(***************************************************************************)
\* Operation e of the document is the operation of route r.
OperationOfRoute(e, r) ==
    /\ e[1] = Translated11(r.path, 1)
    /\ e[2] = LowerCased(r.method)
    /\ e[3].operationId = Def(r.handler.name)

\* C20: when getOpenAPISchema returns a document for a base without paths,
\* every route that registerControllers returns for the same controllers has
\* exactly one operation, under the translated path and the lower-cased
\* method of the route; every operation of the document is the operation of
\* exactly one route; and there are as many operations as routes.
C20_OperationsMatchRoutes ==
    (/\ Synthesized
     /\ thrown = ""
     /\ IsDef(kept.info)
     /\ kept.of.info = Controllers)
    => /\ Cardinality(EntriesOf(Val(openapi))) = Len(Val(kept.info))
       /\ \A k \in 1..Len(Val(kept.info)) :
             Cardinality({e \in EntriesOf(Val(openapi)) :
                             OperationOfRoute(e, Val(kept.info)[k])}) = 1
       /\ \A e \in EntriesOf(Val(openapi)) :
             Cardinality({k \in 1..Len(Val(kept.info)) :
                             OperationOfRoute(e, Val(kept.info)[k])}) = 1

\* Two routes whose paths translate to the same OpenAPI path, under two
\* methods: two operations in one path entry.
C20_Witness ==
    /\ Synthesized
    /\ thrown = ""
    /\ IsDef(kept.info)
    /\ kept.of.info = Controllers
    /\ Len(Val(kept.info)) = 2
    /\ Val(kept.info)[1].path # Val(kept.info)[2].path
    /\ Val(kept.info)[1].method # Val(kept.info)[2].method
    /\ Len(Val(Val(openapi).paths)) = 1
    /\ Len(Val(Val(openapi).paths)[1].value.operations) = 2

(***************************************************************************)
(* C21.  The parameters of a path entry.                                   *)
(***************************************************************************)
\* The raw paths, in resolution order, that translate to key.
RawPathsOf(key) ==
    LET Gives(r) == Translated11(r.path, 1) = key
        routes == SelectSeq(OrderedRoutes, Gives)
    IN  [k \in 1..Len(routes) |-> routes[k].path]

\* The entry of key in a document, as an optional.
EntryOfKey(doc, key) == IF IsDef(doc.paths) THEN MapGet(Val(doc.paths), key) ELSE Undefined

\* C21: in a returned document, a path entry that the base document had
\* keeps the parameters it had there, whatever raw paths translate to its
\* key; any other path entry has the parameters of the first raw path, in
\* resolution order, that translates to its key (none when that path has no
\* parameter); and every raw path has its operation in the entry of its key.
C21_ParametersOnce ==
    (Synthesized /\ thrown = "" /\ metadataSupport) =>
        /\ \A i \in 1..Len(Val(Val(openapi).paths)) :
              LET key == Val(Val(openapi).paths)[i].key
                  item == Val(Val(openapi).paths)[i].value
              IN  IF IsDef(EntryOfKey(Val(callArgs.passed), key))
                  THEN item.parameters = Val(EntryOfKey(Val(callArgs.passed), key)).parameters
                  ELSE /\ RawPathsOf(key) # <<>>
                       /\ item.parameters
                            = IF Descriptors11(RawPathsOf(key)[1]) = <<>> THEN Undefined
                              ELSE Def(Descriptors11(RawPathsOf(key)[1]))
        /\ \A k \in 1..Len(OrderedRoutes) :
              /\ IsDef(EntryOfKey(Val(openapi), Translated11(OrderedRoutes[k].path, 1)))
              /\ \E o \in Range(Val(EntryOfKey(Val(openapi),
                                               Translated11(OrderedRoutes[k].path, 1))).operations) :
                    o.value.operationId = Def(OrderedRoutes[k].handler.name)

\* The first raw path has a constraint, a later one under another method has
\* none: one path entry, two operations, the parameters of the first.
C21_Witness ==
    /\ Synthesized
    /\ thrown = ""
    /\ callArgs.passed = Def(BaseEmpty)
    /\ Len(OrderedRoutes) = 2
    /\ OrderedRoutes[1].path = PathIA
    /\ OrderedRoutes[2].path = PathI
    /\ Len(Val(Val(openapi).paths)) = 1
    /\ Len(Val(Val(openapi).paths)[1].value.operations) = 2
    /\ Val(Val(openapi).paths)[1].value.parameters = Def(Descriptors11(PathIA))
    /\ Descriptors11(PathIA) # Descriptors11(PathI)

====
